---- MODULE Spec2Model ----
(***************************************************************************)
(* Model of the Meda Packer builder: Builder.Run drives the fixed step     *)
(* sequence through the packer-plugin-sdk runner against one state bag.    *)
(* Strings whose content the code inspects (Contains, Split, Sprintf) are  *)
(* sequences of one-character strings.                                     *)
(***************************************************************************)
EXTENDS Integers, Sequences, FiniteSets, TLC

VARIABLES
    variant,       \* which steps file is compiled in: "plugin" or "root"
    config,        \* the Config of the Builder
    githubToken,   \* the GITHUB_TOKEN of the process environment ("" when unset)
    slowPolls,     \* whether an ip query may take longer than a tick period
    mock,          \* the mock environment of the step harnesses: the backend and the clock
    state,         \* the state bag of the build
    calls,         \* the backend calls issued so far
    envReads,      \* how often GITHUB_TOKEN has been read
    trace,         \* the steps run so far, each with the StepAction it returned
    stepIdx,       \* the runner's position in the step list
    phase,         \* where Builder.Run is
    ctxDone,       \* the build's context has been cancelled
    ticksElapsed,  \* ticks the ticker of stepWaitForVM has produced
    tickPending,   \* a tick is waiting in ticker.C
    timeoutFired,  \* the timer of stepWaitForVM has fired
    polls,         \* ip queries of the current wait that found no address
    result         \* what Builder.Run returned

vars == <<variant, config, githubToken, slowPolls, mock, state, calls, envReads, trace,
          stepIdx, phase, ctxDone, ticksElapsed, tickPending, timeoutFired, polls, result>>

----------------------------------------------------------------------------
(* Strings *)

\* strings.Contains(s, sub)
Contains(s, sub) ==
    \E i \in 0..(Len(s) - Len(sub)) : SubSeq(s, i + 1, i + Len(sub)) = sub

\* strings.Count(s, ch) for a one-character separator
Count(s, ch) == Cardinality({i \in 1..Len(s) : s[i] = ch})

Colon == <<":">>
Slash == <<"/">>
Dash == <<"-">>

Digits == <<"0", "1", "2", "3", "4", "5", "6", "7", "8", "9">>

RECURSIVE FormatInt(_)
\* fmt "%d" of a non-negative integer
FormatInt(n) ==
    IF n < 10 THEN <<Digits[n + 1]>>
    ELSE FormatInt(n \div 10) \o <<Digits[(n % 10) + 1]>>

StrPacker == <<"p", "a", "c", "k", "e", "r">>
StrGhcr == <<"g", "h", "c", "r", ".", "i", "o">>
StrQuay == <<"q", ".", "i", "o">>
StrUbuntu == <<"u", "b", "u", "n", "t", "u">>
StrUbuntuBase == StrUbuntu \o <<"-", "b", "a", "s", "e">>
StrLatest == <<"l", "a", "t", "e", "s", "t">>
StrImg == <<"i", "m", "g">>
StrVm == <<"v", "m">>
StrOrg == <<"o", "r", "g">>

StrNewline == <<"\n">>
StrDenied == <<"d", "e", "n", "i", "e", "d">>
StrUnauthorized == <<"u", "n", "a", "u", "t", "h", "o", "r", "i", "z", "e", "d">>
StrAuthRequired ==
    <<"a", "u", "t", "h", "e", "n", "t", "i", "c", "a", "t", "i", "o", "n",
      " ", "r", "e", "q", "u", "i", "r", "e", "d">>
StrWarn == <<"w", "a", "r", "n">>

----------------------------------------------------------------------------
(* The state bag (multistep.BasicStateBag): a map from keys to values *)

Put(st, k, v) == [x \in (DOMAIN st) \cup {k} |-> IF x = k THEN v ELSE st[x]]
GetOk(st, k) == k \in DOMAIN st

\* ui.Say(msg): the bag's ui keeps what the step said.  Only the messages
\* that tell a command that succeeded from one that failed are kept.
Say(st, msg) == Put(st, "ui", Append(st["ui"], msg))

\* whether msg was said on the bag's ui
Said(st, msg) == \E i \in 1..Len(st["ui"]) : st["ui"][i] = msg

StateCancelled == "cancelled"
StateHalted == "halted"

ActionContinue == "continue"
ActionHalt == "halt"

\* what a step's Run hands back: the bag, the backend calls issued so far,
\* the number of credential reads, and the StepAction
StepOut(st, cs, er, act) == [state |-> st, calls |-> cs, envReads |-> er, action |-> act]

----------------------------------------------------------------------------
(* Backend commands.  A call is the process the step spawns: bin is the    *)
(* executable ("curl" for the HTTP API, else the VM-manager binary or      *)
(* cargo), op the backend operation, a and b its arguments, flags the     *)
(* options that accompany them.                                            *)

Call(bin, op, a, b, flags) == [bin |-> bin, op |-> op, a |-> a, b |-> b, flags |-> flags]

\* the executable chosen by the if config.UseAPI / MedaBinary == "cargo" ladder
Bin(cfg) ==
    IF cfg.UseAPI THEN "curl"
    ELSE IF cfg.MedaBinary = "cargo" THEN "cargo" ELSE cfg.MedaBinary

\* the root-level steps resolve the cargo working directory with getMedaDir
NeedsMedaDir(v, cfg) == v = "root" /\ ~cfg.UseAPI /\ cfg.MedaBinary = "cargo"

\* the prefix of a string before its first ":" (strings.Split(s, ":")[0])
RECURSIVE BeforeColon(_)
BeforeColon(s) ==
    IF s = <<>> \/ Head(s) = ":" THEN <<>> ELSE <<Head(s)>> \o BeforeColon(Tail(s))

\* the text the stderr reader has appended to the buffer after draining the
\* first n lines: each line followed by "\n"
RECURSIVE StderrContent(_, _)
StderrContent(lines, n) ==
    IF n = 0 \/ lines = <<>> THEN <<>>
    ELSE Head(lines) \o StrNewline \o StderrContent(Tail(lines), n - 1)

\* the check gone: the image is never taken to be present
ImageExists_Never(listErr, listing, name) == FALSE

\* err == nil && strings.Contains(string(output), name)
ImageExists(listErr, listing, name) == ~listErr /\ Contains(listing, name)

----------------------------------------------------------------------------
(* Steps of plugin/steps.go and of the root-level steps file.  Each Run is *)
(* a function of the bag, the call history, the Config and the results the *)
(* environment hands back.                                                 *)

stepPullImage_Run(st, cs, er, cfg, list, run) ==
    LET c1 == Append(cs, Call(Bin(cfg), "images", <<>>, <<>>, {}))
        c2 == Append(c1, Call(Bin(cfg), "pull", cfg.BaseImage, <<>>, {}))
        stderrContent == StderrContent(run.lines, run.drained)
    IN  IF ImageExists(list.listErr, list.listing, cfg.BaseImage)
        THEN StepOut(st, c1, er, ActionContinue)
        ELSE IF run.pipeErr
        THEN StepOut(st, c1, er, ActionHalt)
        ELSE IF run.startErr
        THEN StepOut(Put(st, "error", "failed to start pull command"), c1, er, ActionHalt)
        ELSE IF run.exitErr \/ Contains(stderrContent, StrUnauthorized)
                \/ Contains(stderrContent, StrDenied)
        THEN StepOut(Put(st, "error", "failed to pull base image"), c2, er, ActionHalt)
        ELSE StepOut(st, c2, er, ActionContinue)

\* ensureUbuntuBaseImage: the calls it issues and the error it returns ("" for nil)
ensureUbuntuBaseImage(cs, cfg, dirErr, pre) ==
    LET bin == IF cfg.MedaBinary = "cargo" THEN "cargo" ELSE cfg.MedaBinary
        c1 == Append(cs, Call(bin, "images", <<>>, <<>>, {}))
        c2 == Append(c1, Call(bin, "create-image", StrUbuntu, <<>>, {}))
    IN  IF cfg.MedaBinary = "cargo" /\ dirErr
        THEN [calls |-> cs, err |-> "failed to get meda directory"]
        ELSE IF ImageExists(pre.listErr, pre.listing, StrUbuntu)
        THEN [calls |-> c1, err |-> ""]
        ELSE IF pre.createErr
        THEN [calls |-> c2, err |-> "failed to create ubuntu base image"]
        ELSE [calls |-> c2, err |-> ""]

stepCreateBaseImage_Run(st, cs, er, cfg, dirErr, list, pre, run) ==
    LET baseImageName == IF Contains(cfg.BaseImage, Colon)
                         THEN BeforeColon(cfg.BaseImage) ELSE cfg.BaseImage
        c1 == Append(cs, Call(Bin(cfg), "images", <<>>, <<>>, {}))
        ens == IF baseImageName = StrUbuntuBase
               THEN ensureUbuntuBaseImage(c1, cfg, dirErr, pre)
               ELSE [calls |-> c1, err |-> ""]
        c3 == Append(ens.calls, Call(Bin(cfg), "create-image", baseImageName, <<>>, {}))
    IN  IF ~cfg.UseAPI /\ cfg.MedaBinary = "cargo" /\ dirErr
        THEN StepOut(Put(st, "error", "failed to get meda directory"), cs, er, ActionHalt)
        ELSE IF ImageExists(list.listErr, list.listing, baseImageName)
        THEN StepOut(st, c1, er, ActionContinue)
        ELSE IF ens.err # ""
        THEN StepOut(Put(st, "error", ens.err), ens.calls, er, ActionHalt)
        ELSE IF run.pipeErr
        THEN StepOut(st, ens.calls, er, ActionHalt)
        ELSE IF run.startErr
        THEN StepOut(Put(st, "error", "failed to start create-image command"),
                     ens.calls, er, ActionHalt)
        ELSE IF run.exitErr
        THEN StepOut(Put(st, "error", "failed to create base image"), c3, er, ActionHalt)
        ELSE StepOut(st, c3, er, ActionContinue)

\* stepCreateVM.Run with the return after the recorded error lost
stepCreateVM_Run_NoReturn(v, st, cs, er, cfg, in) ==
    LET vmName == st["vm_name"]
        flags == IF cfg.UseAPI THEN {"force=false"}
                 ELSE {"--no-start"} \cup
                      (IF cfg.UserDataFile # "" THEN {"--user-data"} ELSE {})
        c1 == Append(cs, Call(Bin(cfg), "run", cfg.BaseImage, vmName, flags))
    IN  IF NeedsMedaDir(v, cfg) /\ in.dirErr
        THEN StepOut(Put(st, "error", "failed to get meda directory"), cs, er, ActionHalt)
        ELSE IF in.err
        THEN StepOut(Put(st, "error", "failed to create VM"), c1, er, ActionContinue)
        ELSE StepOut(st, c1, er, ActionContinue)

stepCreateVM_Run(v, st, cs, er, cfg, in) ==
    LET vmName == st["vm_name"]
        flags == IF cfg.UseAPI THEN {"force=false"}
                 ELSE {"--no-start"} \cup
                      (IF cfg.UserDataFile # "" THEN {"--user-data"} ELSE {})
        c1 == Append(cs, Call(Bin(cfg), "run", cfg.BaseImage, vmName, flags))
    IN  IF NeedsMedaDir(v, cfg) /\ in.dirErr
        THEN StepOut(Put(st, "error", "failed to get meda directory"), cs, er, ActionHalt)
        ELSE IF in.err
        THEN StepOut(Put(st, "error", "failed to create VM"), c1, er, ActionHalt)
        ELSE StepOut(st, c1, er, ActionContinue)

stepStartVM_Run(v, st, cs, er, cfg, in) ==
    LET vmName == st["vm_name"]
        c1 == Append(cs, Call(Bin(cfg), "start", vmName, <<>>, {}))
    IN  IF NeedsMedaDir(v, cfg) /\ in.dirErr
        THEN StepOut(Put(st, "error", "failed to get meda directory"), cs, er, ActionHalt)
        ELSE IF in.err
        THEN StepOut(Put(st, "error", "failed to start VM"), c1, er, ActionHalt)
        ELSE StepOut(st, c1, er, ActionContinue)

\* stepStopVM.Run taking the failure of the stop command for fatal
stepStopVM_Run_Fatal(v, st, cs, er, cfg, in) ==
    LET vmName == st["vm_name"]
        c1 == Append(cs, Call(Bin(cfg), "stop", vmName, <<>>, {}))
    IN  IF NeedsMedaDir(v, cfg) /\ in.dirErr
        THEN StepOut(st, cs, er, ActionHalt)
        ELSE IF in.err
        THEN StepOut(Put(st, "error", "failed to stop VM"), c1, er, ActionHalt)
        ELSE StepOut(Say(st, "stopped successfully"), c1, er, ActionContinue)

\* a failure of the stop command goes to the log as a warning; only the
\* success is said on the ui
stepStopVM_Run(v, st, cs, er, cfg, in) ==
    LET vmName == st["vm_name"]
        c1 == Append(cs, Call(Bin(cfg), "stop", vmName, <<>>, {}))
    IN  IF NeedsMedaDir(v, cfg) /\ in.dirErr
        THEN StepOut(st, cs, er, ActionHalt)
        ELSE IF in.err
        THEN StepOut(st, c1, er, ActionContinue)
        ELSE StepOut(Say(st, "stopped successfully"), c1, er, ActionContinue)

\* stepCreateImage.Run leaving image_name out of the bag
stepCreateImage_Run_NoImageName(v, st, cs, er, cfg, in) ==
    LET vmName == st["vm_name"]
        imageName == cfg.OutputImageName \o Colon \o cfg.OutputTag
        c1 == Append(cs, Call(Bin(cfg), "snapshot", cfg.OutputImageName, vmName, {}))
    IN  IF NeedsMedaDir(v, cfg) /\ in.dirErr
        THEN StepOut(st, cs, er, ActionHalt)
        ELSE IF in.err
        THEN StepOut(Put(st, "error", "failed to create image"), c1, er, ActionHalt)
        ELSE StepOut(st, c1, er, ActionContinue)

stepCreateImage_Run(v, st, cs, er, cfg, in) ==
    LET vmName == st["vm_name"]
        imageName == cfg.OutputImageName \o Colon \o cfg.OutputTag
        c1 == Append(cs, Call(Bin(cfg), "snapshot", cfg.OutputImageName, vmName, {}))
    IN  IF NeedsMedaDir(v, cfg) /\ in.dirErr
        THEN StepOut(st, cs, er, ActionHalt)
        ELSE IF in.err
        THEN StepOut(Put(st, "error", "failed to create image"), c1, er, ActionHalt)
        ELSE StepOut(Put(st, "image_name", imageName), c1, er, ActionContinue)

\* the coordinate with the organization left out
TargetImage_NoOrganization(cfg) ==
    cfg.Registry \o Slash \o cfg.OutputImageName \o Colon \o cfg.OutputTag

\* the coordinate stepPushImage pushes to
TargetImage(cfg) ==
    IF cfg.Organization # <<>>
    THEN cfg.Registry \o Slash \o cfg.Organization \o Slash
             \o cfg.OutputImageName \o Colon \o cfg.OutputTag
    ELSE cfg.Registry \o Slash \o cfg.OutputImageName \o Colon \o cfg.OutputTag

\* the skip gone: the step pushes whatever push_to_registry says
PushDisabled_Never(cfg) == FALSE

\* if !config.PushToRegistry
PushDisabled(cfg) == ~cfg.PushToRegistry

\* the credential check gone
TokenMissing_Never(needsToken, token) == FALSE

\* os.Getenv("GITHUB_TOKEN") == "" under strings.Contains(config.Registry, "ghcr.io")
TokenMissing(needsToken, token) == needsToken /\ token = ""

\* stepPushImage.Run recording pushed_image only for a real publish
stepPushImage_Run_DryRunUnrecorded(v, st, cs, er, cfg, token, dirErr, run) ==
    LET imageName == st["image_name"]
        needsToken == Contains(cfg.Registry, StrGhcr)
        er1 == IF needsToken THEN er + 1 ELSE er
        targetImage == TargetImage(cfg)
        call ==
            IF cfg.UseAPI
            THEN Call("curl", "push", imageName, targetImage,
                      {IF cfg.DryRun THEN "dry_run=true" ELSE "dry_run=false"})
            ELSE Call(Bin(cfg), "push", cfg.OutputImageName, targetImage,
                      (IF cfg.Registry # <<>> /\ cfg.Registry # StrGhcr
                       THEN {"--registry"} ELSE {})
                      \cup (IF cfg.DryRun THEN {"--dry-run"} ELSE {}))
        c1 == Append(cs, call)
        stderrContent == StderrContent(run.lines, run.drained)
    IN  IF PushDisabled(cfg)
        THEN StepOut(st, cs, er, ActionContinue)
        ELSE IF TokenMissing(needsToken, token)
        THEN StepOut(Put(st, "error", "GITHUB_TOKEN environment variable is required"),
                     cs, er1, ActionHalt)
        ELSE IF NeedsMedaDir(v, cfg) /\ dirErr
        THEN StepOut(st, cs, er1, ActionHalt)
        ELSE IF run.pipeErr
        THEN StepOut(st, cs, er1, ActionHalt)
        ELSE IF run.startErr
        THEN StepOut(Put(st, "error", "failed to start push command"), cs, er1, ActionHalt)
        ELSE IF run.exitErr \/ Contains(stderrContent, StrUnauthorized)
                \/ Contains(stderrContent, StrDenied)
                \/ Contains(stderrContent, StrAuthRequired)
        THEN StepOut(Put(st, "error", "failed to push image"), c1, er1, ActionHalt)
        ELSE IF cfg.DryRun
        THEN StepOut(st, c1, er1, ActionContinue)
        ELSE StepOut(Put(st, "pushed_image", targetImage), c1, er1, ActionContinue)

\* stepPushImage.Run asking for a real publish whatever Config.DryRun is
stepPushImage_Run_NoDryRun(v, st, cs, er, cfg, token, dirErr, run) ==
    LET imageName == st["image_name"]
        needsToken == Contains(cfg.Registry, StrGhcr)
        er1 == IF needsToken THEN er + 1 ELSE er
        targetImage == TargetImage(cfg)
        call ==
            IF cfg.UseAPI
            THEN Call("curl", "push", imageName, targetImage,
                      {"dry_run=false"})
            ELSE Call(Bin(cfg), "push", cfg.OutputImageName, targetImage,
                      (IF cfg.Registry # <<>> /\ cfg.Registry # StrGhcr
                       THEN {"--registry"} ELSE {}))
        c1 == Append(cs, call)
        stderrContent == StderrContent(run.lines, run.drained)
    IN  IF PushDisabled(cfg)
        THEN StepOut(st, cs, er, ActionContinue)
        ELSE IF TokenMissing(needsToken, token)
        THEN StepOut(Put(st, "error", "GITHUB_TOKEN environment variable is required"),
                     cs, er1, ActionHalt)
        ELSE IF NeedsMedaDir(v, cfg) /\ dirErr
        THEN StepOut(st, cs, er1, ActionHalt)
        ELSE IF run.pipeErr
        THEN StepOut(st, cs, er1, ActionHalt)
        ELSE IF run.startErr
        THEN StepOut(Put(st, "error", "failed to start push command"), cs, er1, ActionHalt)
        ELSE IF run.exitErr \/ Contains(stderrContent, StrUnauthorized)
                \/ Contains(stderrContent, StrDenied)
                \/ Contains(stderrContent, StrAuthRequired)
        THEN StepOut(Put(st, "error", "failed to push image"), c1, er1, ActionHalt)
        ELSE StepOut(Put(st, "pushed_image", targetImage), c1, er1, ActionContinue)

\* stepPushImage.Run scanning for the two markers of the pull step only
stepPushImage_Run_TwoMarkers(v, st, cs, er, cfg, token, dirErr, run) ==
    LET imageName == st["image_name"]
        needsToken == Contains(cfg.Registry, StrGhcr)
        er1 == IF needsToken THEN er + 1 ELSE er
        targetImage == TargetImage(cfg)
        call ==
            IF cfg.UseAPI
            THEN Call("curl", "push", imageName, targetImage,
                      {IF cfg.DryRun THEN "dry_run=true" ELSE "dry_run=false"})
            ELSE Call(Bin(cfg), "push", cfg.OutputImageName, targetImage,
                      (IF cfg.Registry # <<>> /\ cfg.Registry # StrGhcr
                       THEN {"--registry"} ELSE {})
                      \cup (IF cfg.DryRun THEN {"--dry-run"} ELSE {}))
        c1 == Append(cs, call)
        stderrContent == StderrContent(run.lines, run.drained)
    IN  IF PushDisabled(cfg)
        THEN StepOut(st, cs, er, ActionContinue)
        ELSE IF TokenMissing(needsToken, token)
        THEN StepOut(Put(st, "error", "GITHUB_TOKEN environment variable is required"),
                     cs, er1, ActionHalt)
        ELSE IF NeedsMedaDir(v, cfg) /\ dirErr
        THEN StepOut(st, cs, er1, ActionHalt)
        ELSE IF run.pipeErr
        THEN StepOut(st, cs, er1, ActionHalt)
        ELSE IF run.startErr
        THEN StepOut(Put(st, "error", "failed to start push command"), cs, er1, ActionHalt)
        ELSE IF run.exitErr \/ Contains(stderrContent, StrUnauthorized)
                \/ Contains(stderrContent, StrDenied)
        THEN StepOut(Put(st, "error", "failed to push image"), c1, er1, ActionHalt)
        ELSE StepOut(Put(st, "pushed_image", targetImage), c1, er1, ActionContinue)

stepPushImage_Run(v, st, cs, er, cfg, token, dirErr, run) ==
    LET imageName == st["image_name"]
        needsToken == Contains(cfg.Registry, StrGhcr)
        er1 == IF needsToken THEN er + 1 ELSE er
        targetImage == TargetImage(cfg)
        call ==
            IF cfg.UseAPI
            THEN Call("curl", "push", imageName, targetImage,
                      {IF cfg.DryRun THEN "dry_run=true" ELSE "dry_run=false"})
            ELSE Call(Bin(cfg), "push", cfg.OutputImageName, targetImage,
                      (IF cfg.Registry # <<>> /\ cfg.Registry # StrGhcr
                       THEN {"--registry"} ELSE {})
                      \cup (IF cfg.DryRun THEN {"--dry-run"} ELSE {}))
        c1 == Append(cs, call)
        stderrContent == StderrContent(run.lines, run.drained)
    IN  IF PushDisabled(cfg)
        THEN StepOut(st, cs, er, ActionContinue)
        ELSE IF TokenMissing(needsToken, token)
        THEN StepOut(Put(st, "error", "GITHUB_TOKEN environment variable is required"),
                     cs, er1, ActionHalt)
        ELSE IF NeedsMedaDir(v, cfg) /\ dirErr
        THEN StepOut(st, cs, er1, ActionHalt)
        ELSE IF run.pipeErr
        THEN StepOut(st, cs, er1, ActionHalt)
        ELSE IF run.startErr
        THEN StepOut(Put(st, "error", "failed to start push command"), cs, er1, ActionHalt)
        ELSE IF run.exitErr \/ Contains(stderrContent, StrUnauthorized)
                \/ Contains(stderrContent, StrDenied)
                \/ Contains(stderrContent, StrAuthRequired)
        THEN StepOut(Put(st, "error", "failed to push image"), c1, er1, ActionHalt)
        ELSE StepOut(Put(st, "pushed_image", targetImage), c1, er1, ActionContinue)

\* stepCleanupVM.Run taking the failure of the delete command for fatal
stepCleanupVM_Run_Fatal(v, st, cs, er, cfg, in) ==
    LET vmName == st["vm_name"]
        c1 == Append(cs, Call(Bin(cfg), "delete", vmName, <<>>, {}))
    IN  IF NeedsMedaDir(v, cfg) /\ in.dirErr
        THEN StepOut(st, cs, er, ActionHalt)
        ELSE IF in.err
        THEN StepOut(Put(st, "error", "failed to delete VM"), c1, er, ActionHalt)
        ELSE StepOut(Say(st, "cleaned up successfully"), c1, er, ActionContinue)

\* a failure of the delete command goes to the log as a warning; only the
\* success is said on the ui
stepCleanupVM_Run(v, st, cs, er, cfg, in) ==
    LET vmName == st["vm_name"]
        c1 == Append(cs, Call(Bin(cfg), "delete", vmName, <<>>, {}))
    IN  IF NeedsMedaDir(v, cfg) /\ in.dirErr
        THEN StepOut(st, cs, er, ActionHalt)
        ELSE IF in.err
        THEN StepOut(st, c1, er, ActionContinue)
        ELSE StepOut(Say(st, "cleaned up successfully"), c1, er, ActionContinue)

----------------------------------------------------------------------------
(* stepWaitForVM: address validation and one pass of the poll loop *)

Whitespace == {" ", "\t", "\r", "\n"}

RECURSIVE TrimLeft(_)
TrimLeft(s) == IF s # <<>> /\ Head(s) \in Whitespace THEN TrimLeft(Tail(s)) ELSE s

RECURSIVE TrimRight(_)
TrimRight(s) ==
    IF s # <<>> /\ s[Len(s)] \in Whitespace THEN TrimRight(SubSeq(s, 1, Len(s) - 1)) ELSE s

\* strings.TrimSpace
TrimSpace(s) == TrimRight(TrimLeft(s))

\* strings.Split(s, sep) for a one-character separator
RECURSIVE SplitAcc(_, _, _)
SplitAcc(s, sep, cur) ==
    IF s = <<>> THEN <<cur>>
    ELSE IF Head(s) = sep THEN <<cur>> \o SplitAcc(Tail(s), sep, <<>>)
    ELSE SplitAcc(Tail(s), sep, Append(cur, Head(s)))

Split(s, sep) == SplitAcc(s, sep, <<>>)

IsDigit(c) == \E i \in 1..10 : Digits[i] = c

\* the conversion never failing
AtoiOk_Always(part) == TRUE

\* strconv.Atoi(part) returns no error: an optional sign, then one or more digits
AtoiOk(part) ==
    LET body == IF part # <<>> /\ Head(part) \in {"+", "-"} THEN Tail(part) ELSE part
    IN  body # <<>> /\ \A i \in 1..Len(body) : IsDigit(body[i])

\* the test applied to one trimmed line
LooksLikeIP(line) ==
    /\ Count(line, ".") = 3
    /\ ~Contains(line, <<" ">>)
    /\ Len(Split(line, ".")) = 4
    /\ \A i \in 1..Len(Split(line, ".")) : AtoiOk(Split(line, ".")[i])

\* the first line of the output that passes, "" when none does
RECURSIVE FirstIP(_)
FirstIP(lines) ==
    IF lines = <<>> THEN <<>>
    ELSE IF LooksLikeIP(TrimSpace(Head(lines))) THEN TrimSpace(Head(lines))
    ELSE FirstIP(Tail(lines))

ExtractIP(output) == FirstIP(Split(output, "\n"))

StrNull == <<"n", "u", "l", "l">>

\* the call history keeps a run of identical polls as one entry; the polls
\* of a wait are counted separately
LogPoll(cs, c) == IF cs # <<>> /\ cs[Len(cs)] = c THEN cs ELSE Append(cs, c)

\* the timeout case taking vm_name out of the bag
stepWaitForVM_Timeout_Remove(st) ==
    [state |-> [k \in (DOMAIN st \ {"vm_name"}) \cup {"error"} |->
                   IF k = "error" THEN "timeout waiting for VM to be ready" ELSE st[k]],
     action |-> ActionHalt]

\* the body of case <-timeout
stepWaitForVM_Timeout(st) ==
    [state |-> Put(st, "error", "timeout waiting for VM to be ready"),
     action |-> ActionHalt]

\* the poll leaving the communicator's host as it was
stepWaitForVM_Poll_NoHost(v, st, cs, cfg, in) ==
    LET vmName == st["vm_name"]
        c1 == LogPoll(cs, Call(Bin(cfg), "ip", vmName, <<>>, {}))
        ip == IF ~in.err /\ Len(in.output) > 0 THEN ExtractIP(in.output) ELSE <<>>
    IN  IF NeedsMedaDir(v, cfg) /\ in.dirErr
        THEN [state |-> st, calls |-> cs, config |-> cfg, action |-> ActionHalt]
        ELSE IF ip # <<>> /\ ip # StrNull
        THEN [state |-> Put(Put(st, "vm_ip", ip), "instance_ip", ip),
              calls |-> c1,
              config |-> cfg,
              action |-> ActionContinue]
        ELSE [state |-> st, calls |-> c1, config |-> cfg, action |-> "again"]

\* the body of case <-ticker.C: action "again" stands for falling through to
\* the next iteration of the loop
stepWaitForVM_Poll(v, st, cs, cfg, in) ==
    LET vmName == st["vm_name"]
        c1 == LogPoll(cs, Call(Bin(cfg), "ip", vmName, <<>>, {}))
        ip == IF ~in.err /\ Len(in.output) > 0 THEN ExtractIP(in.output) ELSE <<>>
    IN  IF NeedsMedaDir(v, cfg) /\ in.dirErr
        THEN [state |-> st, calls |-> cs, config |-> cfg, action |-> ActionHalt]
        ELSE IF ip # <<>> /\ ip # StrNull
        THEN [state |-> Put(Put(st, "vm_ip", ip), "instance_ip", ip),
              calls |-> c1,
              config |-> [cfg EXCEPT !.Comm.SSHHost = ip],
              action |-> ActionContinue]
        ELSE [state |-> st, calls |-> c1, config |-> cfg, action |-> "again"]

----------------------------------------------------------------------------
(* Bounds and inputs *)

MaxTimestamp == 1
MaxTicks == 31
MaxInvocations == 2

\* time.NewTicker(10 * time.Second)
TickSeconds == 10

\* a timer of 50 seconds
TimeoutSeconds_Short == 5 * TickSeconds

\* time.After(5 * time.Minute)
TimeoutSeconds == 300

ImgUbuntu == StrUbuntu \o Colon \o StrLatest
ImgUbuntuBase == StrUbuntuBase \o Colon \o StrLatest

\* a Config as Config.Prepare leaves it
MkConfig(useAPI, bin, base, push, reg, org, dry) ==
    [UseAPI |-> useAPI, MedaBinary |-> bin,
     VMName |-> StrVm, BaseImage |-> base, UserDataFile |-> "",
     OutputImageName |-> StrImg, OutputTag |-> StrLatest,
     Registry |-> reg, Organization |-> org,
     PushToRegistry |-> push, DryRun |-> dry,
     Comm |-> [Type |-> "ssh", SSHPrivateKeyFile |-> "", SSHPassword |-> "cirun",
               SSHHost |-> <<>>]]

Transports == {<<TRUE, "meda">>, <<FALSE, "meda">>, <<FALSE, "cargo">>}

\* the builds checked: which steps file is compiled in, and the Config.
\* Every transport with publishing off and on; every publish setting under
\* the CLI and the API; the dependent base image under the root-level steps.
Builds ==
    {<<v, MkConfig(t[1], t[2], ImgUbuntu, p, StrGhcr, StrOrg, FALSE)>> :
        v \in {"plugin", "root"}, t \in Transports, p \in BOOLEAN}
    \cup
    {<<"plugin", MkConfig(u, "meda", ImgUbuntu, TRUE, r, o, d)>> :
        u \in BOOLEAN, r \in {StrGhcr, StrQuay}, o \in {<<>>, StrOrg}, d \in BOOLEAN}
    \cup
    {<<"root", MkConfig(t[1], t[2], ImgUbuntuBase, FALSE, StrGhcr, <<>>, FALSE)>> :
        t \in Transports}

\* the builds in which an ip query may take longer than a tick period
SlowBuilds ==
    {<<"plugin", MkConfig(TRUE, "meda", ImgUbuntu, FALSE, StrGhcr, StrOrg, FALSE)>>,
     <<"root", MkConfig(FALSE, "cargo", ImgUbuntu, FALSE, StrGhcr, StrOrg, FALSE)>>}

\* outputs of the images listing
Listings == {<<>>, ImgUbuntu \o StrNewline, ImgUbuntuBase \o StrNewline}

\* what the subprocess writes to standard error, line by line
StderrLines == {<<>>, <<StrWarn>>, <<StrWarn, StrDenied>>, <<StrUnauthorized>>, <<StrAuthRequired>>}

StrAddr == <<"1", "0", ".", "0", ".", "0", ".", "2">>

\* outputs of the ip query
PollOutputs == {<<>>, StrNull \o StrNewline, StrAddr \o StrNewline, <<"1", ".", "2", ".", "3">>}

\* whether getMedaDir fails: it is called only on the cargo path of the
\* root-level steps
DirErrs(v, cfg) == IF v = "root" /\ cfg.MedaBinary = "cargo" THEN BOOLEAN ELSE {FALSE}

\* results of a subprocess with piped output: the pipes, the start, the exit
\* status, the lines written to standard error and how many of them the
\* reader has appended when the buffer is read
PipedRuns ==
    [pipeErr : BOOLEAN, startErr : BOOLEAN, exitErr : BOOLEAN,
     lines : StderrLines, drained : 0..2]

ListingResults == [listErr : BOOLEAN, listing : Listings]

\* results of the prerequisite image's check and create
PreInputs == [listErr : BOOLEAN, listing : Listings, createErr : BOOLEAN]

\* values of the GITHUB_TOKEN environment variable
Tokens == {"", "tok"}

CmdInputs(v, cfg) == [dirErr : DirErrs(v, cfg), err : BOOLEAN]

PollInputs(v, cfg) == [dirErr : DirErrs(v, cfg), err : BOOLEAN, output : PollOutputs]

NoMock == [listErr |-> TRUE, listing |-> <<>>]

NoResult == [hasArtifact |-> FALSE, ImageName |-> <<>>, PushedImage |-> <<>>, err |-> ""]

----------------------------------------------------------------------------
(* The runner (commonsteps.NewRunner / multistep.BasicRunner.Run) *)

\* the step list with the stop and the snapshot ahead of the connect
BuildSteps_SnapshotFirst(v, cfg) ==
    <<IF v = "plugin" THEN "stepPullImage" ELSE "stepCreateBaseImage",
      "stepCreateVM", "stepStartVM", "stepWaitForVM",
      "stepStopVM", "stepCreateImage",
      IF cfg.Comm.Type = "ssh" /\ cfg.Comm.SSHPrivateKeyFile = ""
            /\ cfg.Comm.SSHPassword = ""
      THEN "StepSSHKeyGen" ELSE "nullStep",
      "StepConnect", "StepProvision",
      "stepPushImage", "stepCleanupVM">>

\* the step list with the key generation put in whatever the Config
BuildSteps_KeyGenAlways(v, cfg) ==
    <<IF v = "plugin" THEN "stepPullImage" ELSE "stepCreateBaseImage",
      "stepCreateVM", "stepStartVM", "stepWaitForVM",
      "StepSSHKeyGen",
      "StepConnect", "StepProvision",
      "stepStopVM", "stepCreateImage", "stepPushImage", "stepCleanupVM">>

\* the step list with the start ahead of the create
BuildSteps_StartFirst(v, cfg) ==
    <<IF v = "plugin" THEN "stepPullImage" ELSE "stepCreateBaseImage",
      "stepStartVM", "stepCreateVM", "stepWaitForVM",
      IF cfg.Comm.Type = "ssh" /\ cfg.Comm.SSHPrivateKeyFile = ""
            /\ cfg.Comm.SSHPassword = ""
      THEN "StepSSHKeyGen" ELSE "nullStep",
      "StepConnect", "StepProvision",
      "stepStopVM", "stepCreateImage", "stepPushImage", "stepCleanupVM">>

\* the step list Builder.Run builds; multistep.If yields a null step when
\* its condition is false
BuildSteps(v, cfg) ==
    <<IF v = "plugin" THEN "stepPullImage" ELSE "stepCreateBaseImage",
      "stepCreateVM", "stepStartVM", "stepWaitForVM",
      IF cfg.Comm.Type = "ssh" /\ cfg.Comm.SSHPrivateKeyFile = ""
            /\ cfg.Comm.SSHPassword = ""
      THEN "StepSSHKeyGen" ELSE "nullStep",
      "StepConnect", "StepProvision",
      "stepStopVM", "stepCreateImage", "stepPushImage", "stepCleanupVM">>

Steps == BuildSteps(variant, config)

\* the runner's checks after step.Run returned: the bag, and whether the
\* loop is left
AfterStep(st, act) ==
    IF GetOk(st, StateCancelled) THEN [state |-> st, brk |-> TRUE]
    ELSE IF act = ActionHalt THEN [state |-> Put(st, StateHalted, TRUE), brk |-> TRUE]
    ELSE [state |-> st, brk |-> FALSE]

\* the loop has reached the named step and ctx.Err() is nil
Current(name) == phase = "run" /\ ~ctxDone /\ Steps[stepIdx] = name

\* the loop moves on: to the next step, or out of the loop
Advance(name, st, act) ==
    LET a == AfterStep(st, act)
    IN  /\ state' = a.state
        /\ trace' = Append(trace, <<name, act>>)
        /\ IF a.brk \/ stepIdx = Len(Steps)
           THEN phase' = "ran" /\ stepIdx' = stepIdx
           ELSE phase' = "run" /\ stepIdx' = stepIdx + 1

Finish(name, out) ==
    /\ Advance(name, out.state, out.action)
    /\ calls' = out.calls
    /\ envReads' = out.envReads

\* Builder.Run without its check of the cancelled marker
BuilderRunResult_NoCancelled(st) ==
    IF GetOk(st, "error")
    THEN [NoResult EXCEPT !.err = st["error"]]
    ELSE IF GetOk(st, StateHalted)
    THEN [NoResult EXCEPT !.err = "build was halted"]
    ELSE IF ~GetOk(st, "image_name")
    THEN [NoResult EXCEPT !.err = "failed to get image name from state"]
    ELSE [hasArtifact |-> TRUE,
          ImageName |-> st["image_name"],
          PushedImage |-> IF GetOk(st, "pushed_image") THEN st["pushed_image"] ELSE <<>>,
          err |-> ""]

\* what Builder.Run returns once the runner is back
BuilderRunResult(st) ==
    IF GetOk(st, "error")
    THEN [NoResult EXCEPT !.err = st["error"]]
    ELSE IF GetOk(st, StateCancelled)
    THEN [NoResult EXCEPT !.err = "build was cancelled"]
    ELSE IF GetOk(st, StateHalted)
    THEN [NoResult EXCEPT !.err = "build was halted"]
    ELSE IF ~GetOk(st, "image_name")
    THEN [NoResult EXCEPT !.err = "failed to get image name from state"]
    ELSE [hasArtifact |-> TRUE,
          ImageName |-> st["image_name"],
          PushedImage |-> IF GetOk(st, "pushed_image") THEN st["pushed_image"] ELSE <<>>,
          err |-> ""]

----------------------------------------------------------------------------
(* Actions *)

Init ==
    /\ \E b \in Builds : variant = b[1] /\ config = b[2]
    /\ githubToken \in (IF config.PushToRegistry THEN Tokens ELSE {""})
    /\ slowPolls \in BOOLEAN
    /\ slowPolls => <<variant, config>> \in SlowBuilds
    /\ mock = NoMock
    /\ state = << >>
    /\ calls = << >>
    /\ envReads = 0
    /\ trace = << >>
    /\ stepIdx = 1
    /\ phase = "idle"
    /\ ctxDone = FALSE
    /\ ticksElapsed = 0
    /\ tickPending = FALSE
    /\ timeoutFired = FALSE
    /\ polls = 0
    /\ result = NoResult

env == <<variant, config, githubToken, slowPolls, mock>>

waitVars == <<ticksElapsed, tickPending, timeoutFired, polls>>

\* Builder.Run up to the start of the runner
BuilderRunStart ==
    /\ phase = "idle"
    /\ \E ts \in 1..MaxTimestamp :
         state' = [k \in {"config", "ui", "vm_name", "hook"} |->
                     IF k = "vm_name"
                     THEN StrPacker \o Dash \o config.VMName \o Dash \o FormatInt(ts)
                     ELSE <<k>>]
    /\ phase' = "run"
    /\ UNCHANGED <<env, calls, envReads, trace, stepIdx, ctxDone, waitVars, result>>

\* the context is cancelled from outside while the runner is running
Cancel ==
    /\ phase \in {"run", "wait"}
    /\ ~ctxDone
    /\ ctxDone' = TRUE
    /\ UNCHANGED <<env, state, calls, envReads, trace, stepIdx, phase, waitVars, result>>

\* the runner's goroutine that marks the bag once the context is done
CancelWatcher ==
    /\ phase \in {"run", "wait", "ran"}
    /\ ctxDone
    /\ ~GetOk(state, StateCancelled)
    /\ state' = Put(state, StateCancelled, TRUE)
    /\ UNCHANGED <<env, calls, envReads, trace, stepIdx, phase, ctxDone, waitVars, result>>

\* the loop's check of ctx.Err() before a step
RunnerCancelled ==
    /\ phase = "run"
    /\ ctxDone
    /\ state' = Put(state, StateCancelled, TRUE)
    /\ phase' = "ran"
    /\ UNCHANGED <<env, calls, envReads, trace, stepIdx, ctxDone, waitVars, result>>

StepPullImage ==
    /\ Current("stepPullImage")
    /\ \E list \in ListingResults, run \in PipedRuns :
         Finish("stepPullImage", stepPullImage_Run(state, calls, envReads, config, list, run))
    /\ UNCHANGED <<env, ctxDone, waitVars, result>>

StepCreateBaseImage ==
    /\ Current("stepCreateBaseImage")
    /\ \E dirErr \in DirErrs(variant, config), list \in ListingResults,
          pre \in PreInputs, run \in PipedRuns :
         Finish("stepCreateBaseImage",
                stepCreateBaseImage_Run(state, calls, envReads, config, dirErr, list, pre, run))
    /\ UNCHANGED <<env, ctxDone, waitVars, result>>

StepCreateVM ==
    /\ Current("stepCreateVM")
    /\ \E in \in CmdInputs(variant, config) :
         Finish("stepCreateVM", stepCreateVM_Run(variant, state, calls, envReads, config, in))
    /\ UNCHANGED <<env, ctxDone, waitVars, result>>

StepStartVM ==
    /\ Current("stepStartVM")
    /\ \E in \in CmdInputs(variant, config) :
         Finish("stepStartVM", stepStartVM_Run(variant, state, calls, envReads, config, in))
    /\ UNCHANGED <<env, ctxDone, waitVars, result>>

\* stepWaitForVM.Run starts its timer and ticker and enters the loop
WaitStart ==
    /\ Current("stepWaitForVM")
    /\ phase' = "wait"
    /\ ticksElapsed' = 0
    /\ tickPending' = FALSE
    /\ timeoutFired' = FALSE
    /\ polls' = 0
    /\ UNCHANGED <<env, state, calls, envReads, trace, stepIdx, ctxDone, result>>

\* the ticker delivers a tick; its channel holds one, a further one is
\* dropped.  The tick that falls due at the deadline is set after the timer,
\* so it comes after it.  When queries are quick the loop is back in select
\* before the next timer event.
ClockTick ==
    /\ phase = "wait"
    /\ ticksElapsed < MaxTicks
    /\ slowPolls \/ (~tickPending /\ ~timeoutFired)
    /\ (ticksElapsed + 1) * TickSeconds < TimeoutSeconds \/ timeoutFired
    /\ ticksElapsed' = ticksElapsed + 1
    /\ tickPending' = TRUE
    /\ UNCHANGED <<env, state, calls, envReads, trace, stepIdx, phase, ctxDone,
                   timeoutFired, polls, result>>

\* the timer of time.After fires
ClockTimeout ==
    /\ phase = "wait"
    /\ ~timeoutFired
    /\ slowPolls \/ ~tickPending
    /\ (ticksElapsed + 1) * TickSeconds >= TimeoutSeconds
    /\ timeoutFired' = TRUE
    /\ UNCHANGED <<env, state, calls, envReads, trace, stepIdx, phase, ctxDone,
                   ticksElapsed, tickPending, polls, result>>

\* select takes case <-timeout; the clock is left as it was when the timeout
\* was taken
WaitSelectTimeout ==
    /\ phase = "wait"
    /\ timeoutFired
    /\ LET out == stepWaitForVM_Timeout(state)
       IN  Advance("stepWaitForVM", out.state, out.action)
    /\ UNCHANGED <<env, calls, envReads, ctxDone, waitVars, result>>

\* select takes case <-ticker.C; when the step returns from here its timer,
\* ticker and poll count are gone
WaitSelectTick ==
    /\ phase = "wait"
    /\ tickPending
    /\ \E in \in PollInputs(variant, config) :
         LET out == stepWaitForVM_Poll(variant, state, calls, config, in)
         IN  /\ calls' = out.calls
             /\ config' = out.config
             /\ tickPending' = FALSE
             /\ IF out.action = "again"
                THEN /\ polls' = polls + 1
                     /\ UNCHANGED <<state, trace, stepIdx, phase, ticksElapsed, timeoutFired>>
                ELSE /\ Advance("stepWaitForVM", out.state, out.action)
                     /\ polls' = 0
                     /\ ticksElapsed' = 0
                     /\ timeoutFired' = FALSE
    /\ UNCHANGED <<variant, githubToken, slowPolls, mock, envReads, ctxDone, result>>

\* communicator.StepSSHKeyGen, communicator.StepConnect and
\* commonsteps.StepProvision: they continue, or record an error and halt, or
\* halt without one
Collaborator(name, canHalt) ==
    /\ Current(name)
    /\ \/ Advance(name, state, ActionContinue)
       \/ canHalt /\ Advance(name, Put(state, "error", name \o " failed"), ActionHalt)
       \/ canHalt /\ Advance(name, state, ActionHalt)
    /\ UNCHANGED <<env, calls, envReads, ctxDone, waitVars, result>>

\* multistep.If(..., StepSSHKeyGen): the step itself, or the null step, which
\* only continues
StepKeyGenIf ==
    \E keyGen \in BOOLEAN :
        Collaborator(IF keyGen THEN "StepSSHKeyGen" ELSE "nullStep", keyGen)

StepConnect == Collaborator("StepConnect", TRUE)

StepProvision == Collaborator("StepProvision", TRUE)

StepStopVM ==
    /\ Current("stepStopVM")
    /\ \E in \in CmdInputs(variant, config) :
         Finish("stepStopVM", stepStopVM_Run(variant, state, calls, envReads, config, in))
    /\ UNCHANGED <<env, ctxDone, waitVars, result>>

StepCreateImage ==
    /\ Current("stepCreateImage")
    /\ \E in \in CmdInputs(variant, config) :
         Finish("stepCreateImage",
                stepCreateImage_Run(variant, state, calls, envReads, config, in))
    /\ UNCHANGED <<env, ctxDone, waitVars, result>>

StepPushImage ==
    /\ Current("stepPushImage")
    /\ \E dirErr \in DirErrs(variant, config), run \in PipedRuns :
         Finish("stepPushImage",
                stepPushImage_Run(variant, state, calls, envReads, config, githubToken,
                                  dirErr, run))
    /\ UNCHANGED <<env, ctxDone, waitVars, result>>

StepCleanupVM ==
    /\ Current("stepCleanupVM")
    /\ \E in \in CmdInputs(variant, config) :
         Finish("stepCleanupVM", stepCleanupVM_Run(variant, state, calls, envReads, config, in))
    /\ UNCHANGED <<env, ctxDone, waitVars, result>>

\* the rest of Builder.Run after b.runner.Run returned
BuilderRunReturn ==
    /\ phase = "ran"
    /\ result' = BuilderRunResult(state)
    /\ phase' = "returned"
    /\ UNCHANGED <<env, state, calls, envReads, trace, stepIdx, ctxDone, waitVars>>

Next ==
    \/ BuilderRunStart
    \/ Cancel
    \/ CancelWatcher
    \/ RunnerCancelled
    \/ StepPullImage
    \/ StepCreateBaseImage
    \/ StepCreateVM
    \/ StepStartVM
    \/ WaitStart
    \/ ClockTick
    \/ ClockTimeout
    \/ WaitSelectTimeout
    \/ WaitSelectTick
    \/ StepKeyGenIf
    \/ StepConnect
    \/ StepProvision
    \/ StepStopVM
    \/ StepCreateImage
    \/ StepPushImage
    \/ StepCleanupVM
    \/ BuilderRunReturn

Spec == Init /\ [][Next]_vars

----------------------------------------------------------------------------
(* The base-image step run on its own, again and again, against a mock     *)
(* backend whose images listing stays the same                             *)

\* the bag as Builder.Run hands it to the first step
InitialBag ==
    [k \in {"config", "ui", "vm_name", "hook"} |->
        IF k = "vm_name" THEN StrPacker \o Dash \o StrVm \o Dash \o FormatInt(1)
        ELSE <<k>>]

\* the builds the step is run for: the push settings do not reach it
HarnessBuilds == {b \in Builds : ~b[2].PushToRegistry}

InitBaseImage ==
    /\ \E b \in HarnessBuilds : variant = b[1] /\ config = b[2]
    /\ githubToken = ""
    /\ slowPolls = FALSE
    /\ mock \in ListingResults
    /\ state = InitialBag
    /\ calls = << >>
    /\ envReads = 0
    /\ trace = << >>
    /\ stepIdx = 1
    /\ phase = "harness"
    /\ ctxDone = FALSE
    /\ ticksElapsed = 0
    /\ tickPending = FALSE
    /\ timeoutFired = FALSE
    /\ polls = 0
    /\ result = NoResult

\* one more invocation of a step's Run on the same bag
Invoke(name, out) ==
    /\ state' = out.state
    /\ calls' = out.calls
    /\ trace' = Append(trace, <<name, out.action>>)
    /\ UNCHANGED <<env, envReads, stepIdx, phase, ctxDone, waitVars, result>>

InvokePullImage ==
    /\ phase = "harness"
    /\ variant = "plugin"
    /\ Len(trace) < MaxInvocations
    /\ \E run \in PipedRuns :
         Invoke("stepPullImage", stepPullImage_Run(state, calls, envReads, config, mock, run))

InvokeCreateBaseImage ==
    /\ phase = "harness"
    /\ variant = "root"
    /\ Len(trace) < MaxInvocations
    /\ \E dirErr \in DirErrs(variant, config), pre \in PreInputs, run \in PipedRuns :
         Invoke("stepCreateBaseImage",
                stepCreateBaseImage_Run(state, calls, envReads, config, dirErr, mock, pre, run))

NextBaseImage ==
    \/ InvokePullImage
    \/ InvokeCreateBaseImage

SpecBaseImage == InitBaseImage /\ [][NextBaseImage]_vars

----------------------------------------------------------------------------
(* Properties *)

Returned == phase = "returned"

HasCall(op) == \E i \in 1..Len(calls) : calls[i].op = op

CountCalls(op) == Cardinality({i \in 1..Len(calls) : calls[i].op = op})

Ran(name) == \E k \in 1..Len(trace) : trace[k][1] = name

Halted(name) == \E k \in 1..Len(trace) : trace[k] = <<name, ActionHalt>>

ErrorIs(msg) == GetOk(state, "error") /\ state["error"] = msg

\* the position in the step list of the step that issues a backend call
OpStep(op) ==
    CASE op \in {"images", "pull", "create-image"} -> 1
      [] op = "run" -> 2
      [] op = "start" -> 3
      [] op = "ip" -> 4
      [] op = "stop" -> 8
      [] op = "snapshot" -> 9
      [] op = "push" -> 10
      [] op = "delete" -> 11

TokenError == "GITHUB_TOKEN environment variable is required"

TimeoutError == "timeout waiting for VM to be ready"

\* C1: in every build in which the VM-creation call was issued, once
\* Builder.Run has returned the last backend call issued is the delete of
\* that build's VM, whether the steps succeeded, one halted, or the build
\* was cancelled.
C1_DeleteIsFinalCall ==
    (Returned /\ HasCall("run")) =>
        /\ calls[Len(calls)].op = "delete"
        /\ calls[Len(calls)].a = state["vm_name"]

\* C2: with push_to_registry set, registry ghcr.io and GITHUB_TOKEN unset,
\* when every step before the push step succeeded, the build halts at the
\* push step, Builder.Run returns no Artifact and the credential error, and
\* the VM delete has been issued exactly once by the time Run returns.
C2_CredentialHaltDeletesOnce ==
    (/\ Returned
     /\ config.PushToRegistry /\ config.Registry = StrGhcr /\ githubToken = ""
     /\ Len(trace) >= 10
     /\ \A k \in 1..9 : trace[k][2] = ActionContinue) =>
        /\ trace[10] = <<"stepPushImage", ActionHalt>>
        /\ ~result.hasArtifact
        /\ result.err = TokenError
        /\ CountCalls("delete") = 1

\* C3: once a step has failed (it recorded an error or returned Halt) the
\* runner has left the step loop, and no backend call of a step later than
\* the last step run has been issued.
C3_FailureStopsProgress ==
    (GetOk(state, "error") \/ \E k \in 1..Len(trace) : trace[k][2] = ActionHalt) =>
        /\ phase \in {"ran", "returned"}
        /\ \A i \in 1..Len(calls) : OpStep(calls[i].op) <= Len(trace)

C3_Witness ==
    /\ Returned
    /\ ErrorIs("failed to create VM")
    /\ trace[Len(trace)] = <<"stepCreateVM", ActionHalt>>
    /\ calls[Len(calls)].op = "run"

CollaboratorHalted ==
    Halted("StepSSHKeyGen") \/ Halted("StepConnect") \/ Halted("StepProvision")

\* C4: when the connect or the provision step halts (on a failure, a
\* cancellation or a plain halt), the snapshot and the push step are never
\* run, no snapshot or push call is issued, no image_name is recorded, and
\* Builder.Run returns an error and no Artifact.
C4_CollaboratorHaltEndsBuild ==
    CollaboratorHalted =>
        /\ phase \in {"ran", "returned"}
        /\ ~Ran("stepCreateImage") /\ ~Ran("stepPushImage")
        /\ ~HasCall("snapshot") /\ ~HasCall("push")
        /\ ~GetOk(state, "image_name")
        /\ Returned => (~result.hasArtifact /\ result.err # "")

C4_Witness ==
    /\ Returned
    /\ Halted("StepProvision")
    /\ HasCall("ip")
    /\ ~result.hasArtifact
    /\ result.err = "StepProvision failed"

\* every step up to and including the push step has run and returned Continue
ForwardStepsContinued ==
    /\ Len(trace) >= 10
    /\ \A k \in 1..10 : trace[k][2] = ActionContinue

\* C5: Builder.Run returns an Artifact exactly when every forward step
\* returned Continue, the bag holds no error, no cancelled and no halted
\* marker, and image_name is recorded; otherwise it returns no Artifact and
\* an error.
C5_ArtifactIffSuccess ==
    Returned =>
        /\ result.hasArtifact <=>
              (/\ ForwardStepsContinued
               /\ ~GetOk(state, "error")
               /\ ~GetOk(state, StateCancelled)
               /\ ~GetOk(state, StateHalted)
               /\ GetOk(state, "image_name"))
        /\ result.hasArtifact => result.err = ""
        /\ ~result.hasArtifact => result.err # ""

C5_Witness ==
    /\ Returned
    /\ result.hasArtifact
    /\ Len(trace) = 11
    /\ HasCall("delete")

\* C5, the other side: a build cancelled after the snapshot returns no Artifact
C5_WitnessCancelled ==
    /\ Returned
    /\ ~result.hasArtifact
    /\ GetOk(state, "image_name")
    /\ GetOk(state, StateCancelled)
    /\ result.err = "build was cancelled"

\* registry "/" organization "/" name ":" tag, without the organization and
\* its slash when the organization is empty
Coordinate(cfg) ==
    cfg.Registry
        \o (IF Len(cfg.Organization) = 0 THEN <<>> ELSE <<"/">> \o cfg.Organization)
        \o <<"/">> \o cfg.OutputImageName \o <<":">> \o cfg.OutputTag

\* C6: the Artifact of a successful run has ImageName = output_image_name
\* ":" output_tag; when the push call was issued its PushedImage is
\* registry/organization/output_image_name:output_tag (organization and its
\* slash left out when empty) and is the coordinate passed to the push call.
C6_ArtifactCoordinates ==
    (Returned /\ result.hasArtifact) =>
        /\ result.ImageName = config.OutputImageName \o <<":">> \o config.OutputTag
        /\ \A i \in 1..Len(calls) :
              calls[i].op = "push" =>
                  /\ result.PushedImage = Coordinate(config)
                  /\ calls[i].b = result.PushedImage

C6_Witness ==
    /\ Returned
    /\ result.hasArtifact
    /\ HasCall("push")
    /\ config.Organization = StrOrg
    /\ result.PushedImage = StrGhcr \o <<"/">> \o StrOrg \o <<"/">> \o StrImg \o <<":">> \o StrLatest

\* C6, the empty organization
C6_WitnessNoOrganization ==
    /\ Returned
    /\ result.hasArtifact
    /\ HasCall("push")
    /\ config.Organization = <<>>
    /\ result.PushedImage = config.Registry \o <<"/">> \o StrImg \o <<":">> \o StrLatest

\* C7: with push_to_registry false no push call is issued, GITHUB_TOKEN is
\* never read, pushed_image is never written, the push step returns
\* Continue, and the Artifact's PushedImage is empty.
C7_PushDisabledSkips ==
    ~config.PushToRegistry =>
        /\ ~HasCall("push")
        /\ envReads = 0
        /\ ~GetOk(state, "pushed_image")
        /\ \A k \in 1..Len(trace) :
              trace[k][1] = "stepPushImage" => trace[k][2] = ActionContinue
        /\ (Returned /\ result.hasArtifact) => result.PushedImage = <<>>

C7_Witness ==
    /\ ~config.PushToRegistry
    /\ Returned
    /\ Ran("stepPushImage")
    /\ result.hasArtifact
    /\ result.PushedImage = <<>>

\* C8: with push_to_registry set, a registry containing ghcr.io and
\* GITHUB_TOKEN unset, the push step records the credential error and
\* returns Halt; no push call is issued and pushed_image is not written.
C8_MissingTokenHaltsBeforePush ==
    (config.PushToRegistry /\ Contains(config.Registry, StrGhcr) /\ githubToken = "") =>
        /\ ~HasCall("push")
        /\ ~GetOk(state, "pushed_image")
        /\ \A k \in 1..Len(trace) :
              trace[k][1] = "stepPushImage" =>
                  /\ trace[k][2] = ActionHalt
                  /\ ErrorIs(TokenError)
                  /\ envReads = 1

C8_Witness ==
    /\ config.PushToRegistry /\ Contains(config.Registry, StrGhcr) /\ githubToken = ""
    /\ Returned
    /\ Halted("stepPushImage")
    /\ HasCall("snapshot")
    /\ result.err = TokenError

\* the name the base-image step looks for in the listing
CheckedName ==
    IF variant = "plugin" THEN config.BaseImage
    ELSE IF Contains(config.BaseImage, <<":">>) THEN BeforeColon(config.BaseImage)
    ELSE config.BaseImage

\* the mock's listing succeeds and shows the base image
MockHasBaseImage == ~mock.listErr /\ Contains(mock.listing, CheckedName)

\* C9: when the listing shows the base image, every invocation of the
\* base-image step that makes the check returns Continue having issued the
\* listing call and nothing else: no pull or create call is issued, in the
\* first invocation or in a repeated one.  (On the cargo path of the
\* root-level step an invocation may halt on the meda directory before it
\* makes the check; it issues no call at all.)
C9_ExistingImageIdempotent ==
    (phase = "harness" /\ MockHasBaseImage) =>
        /\ \A i \in 1..Len(calls) : calls[i].op = "images"
        /\ Len(calls) = Cardinality({k \in 1..Len(trace) : trace[k][2] = ActionContinue})
        /\ \A k \in 1..Len(trace) :
              trace[k][2] = ActionHalt =>
                  (variant = "root" /\ ~config.UseAPI /\ config.MedaBinary = "cargo")
        /\ state = InitialBag \/ ErrorIs("failed to get meda directory")

C9_Witness ==
    /\ phase = "harness"
    /\ MockHasBaseImage
    /\ Len(trace) = MaxInvocations
    /\ \A k \in 1..Len(trace) : trace[k][2] = ActionContinue
    /\ Len(calls) = MaxInvocations

\* the wait step ended by taking the timeout
TimedOut == ErrorIs(TimeoutError)

C10_WitnessFewPolls ==
    /\ TimedOut
    /\ polls < 29

----------------------------------------------------------------------------
(* Cancellation during the wait *)

\* C11: once the cancellation of the build has been raised while
\* stepWaitForVM is in its poll loop, the loop takes no further pass that
\* leaves it waiting: it issues no poll after which it goes on polling.
C11_CancelStopsPolling ==
    [][~(phase = "wait" /\ ctxDone /\ phase' = "wait" /\ polls' = polls + 1)]_vars

----------------------------------------------------------------------------
(* One pass of the poll loop of stepWaitForVM run on its own on the output *)
(* the mock backend gives to the ip query                                  *)

MaxCore == 7

\* texts of dots and digits, up to MaxCore characters
Cores == UNION {[1..n -> {"1", "."}] : n \in 0..MaxCore}

\* what comes before and after such a text in the output
Prefixes == {<< >>, <<" ">>, <<"a">>, <<"a", " ">>, <<"-">>, <<"w", "\n">>}

Suffixes == {<< >>, <<"\n">>, <<" ", "b">>, <<"\r", "\n">>, StrNewline \o StrAddr}

ExampleOutputs ==
    {<<"1", "9", "2", ".", "1", "6", "8", ".", "1", ".", "1", "0">>,
     <<"n", "u", "l", "l">>,
     <<"s", "o", "m", "e", " ", "t", "e", "x", "t", " ", "1", ".", "2", ".", "3", ".", "4", " ", "m", "o", "r", "e">>,
     <<"1", ".", "2", ".", "3">>,
     <<" ", " ", "1", "0", ".", "0", ".", "0", ".", "2", "\t", "\n">>,
     <<"C", "o", "m", "p", "i", "l", "i", "n", "g", " ", "m", "e", "d", "a", "\n", "1", "0", ".", "0", ".", "0", ".", "2", "\n">>,
     <<"1", ".", "2", ".", "3", ".", "4", ".", "5">>,
     <<"+", "1", ".", "2", ".", "3", ".", "4">>,
     <<"1", ".", ".", "2", ".", "3">>,
     <<"a", ".", "b", ".", "c", ".", "d">>}

\* outputs of the ip query the pass is run on
ValidationOutputs ==
    {p \o c \o s : p \in Prefixes, c \in Cores, s \in Suffixes} \cup ExampleOutputs \cup {<< >>}

ValidationBuild == <<"plugin", MkConfig(FALSE, "meda", ImgUbuntu, FALSE, StrGhcr, StrOrg, FALSE)>>

InitValidation ==
    /\ variant = ValidationBuild[1]
    /\ config = ValidationBuild[2]
    /\ githubToken = ""
    /\ slowPolls = FALSE
    /\ mock \in [err : {FALSE}, output : ValidationOutputs]
    /\ state = InitialBag
    /\ calls = << >>
    /\ envReads = 0
    /\ trace = << >>
    /\ stepIdx = 4
    /\ phase = "poll"
    /\ ctxDone = FALSE
    /\ ticksElapsed = 1
    /\ tickPending = TRUE
    /\ timeoutFired = FALSE
    /\ polls = 0
    /\ result = NoResult

\* case <-ticker.C taken once, the ip query answering with the mock's output
InvokePoll ==
    /\ phase = "poll"
    /\ tickPending
    /\ LET out == stepWaitForVM_Poll(variant, state, calls, config,
                                      [dirErr |-> FALSE, err |-> mock.err,
                                       output |-> mock.output])
       IN  /\ state' = out.state
           /\ calls' = out.calls
           /\ config' = out.config
           /\ trace' = Append(trace, <<"stepWaitForVM", out.action>>)
    /\ tickPending' = FALSE
    /\ UNCHANGED <<variant, githubToken, slowPolls, mock, envReads, stepIdx, phase,
                   ctxDone, ticksElapsed, timeoutFired, polls, result>>

NextValidation == InvokePoll

SpecValidation == InitValidation /\ [][NextValidation]_vars

\* where the lines of a text begin: after position 0 and after each newline
LineStarts(s) == {0} \cup {i \in 1..Len(s) : s[i] = "\n"}

\* the line of s that begins after position a
LineAt(s, a) ==
    LET ends == {b \in (a + 1)..(Len(s) + 1) : b = Len(s) + 1 \/ s[b] = "\n"}
        e == CHOOSE b \in ends : \A c \in ends : b <= c
    IN  SubSeq(s, a + 1, e - 1)

\* a line without its leading and trailing white space
Trimmed(l) ==
    LET ink == {i \in 1..Len(l) : l[i] \notin {" ", "\t", "\r", "\n"}}
    IN  IF ink = {} THEN << >>
        ELSE SubSeq(l, CHOOSE i \in ink : \A j \in ink : i <= j,
                       CHOOSE i \in ink : \A j \in ink : i >= j)

\* a decimal integer: an optional sign and one or more digits
IsIntegerText(t) ==
    LET d == IF Len(t) > 0 /\ t[1] \in {"+", "-"} THEN 2 ELSE 1
    IN  /\ Len(t) >= d
        /\ \A i \in d..Len(t) : t[i] \in {"0", "1", "2", "3", "4", "5", "6", "7", "8", "9"}

\* the whole text is four integers separated by three dots
IsAddressLine(t) ==
    \E i, j, k \in 1..Len(t) :
        /\ i < j /\ j < k
        /\ {n \in 1..Len(t) : t[n] = "."} = {i, j, k}
        /\ IsIntegerText(SubSeq(t, 1, i - 1))
        /\ IsIntegerText(SubSeq(t, i + 1, j - 1))
        /\ IsIntegerText(SubSeq(t, j + 1, k - 1))
        /\ IsIntegerText(SubSeq(t, k + 1, Len(t)))

\* where the lines of s that are addresses begin
AddressLines(s) == {a \in LineStarts(s) : IsAddressLine(Trimmed(LineAt(s, a)))}

\* C12: a pass of the poll loop accepts the output of the ip query exactly
\* when one of its lines, trimmed of white space, is in its entirety four
\* dot-separated decimal integers; it then records the first such line as
\* vm_ip and instance_ip and returns Continue; otherwise it records nothing
\* and goes on waiting.
C12_AddressValidation ==
    (phase = "poll" /\ trace # << >>) =>
        LET found == AddressLines(mock.output)
            first == CHOOSE a \in found : \A b \in found : a <= b
        IN  IF found # {}
            THEN /\ trace[1][2] = ActionContinue
                 /\ GetOk(state, "vm_ip")
                 /\ state["vm_ip"] = Trimmed(LineAt(mock.output, first))
                 /\ state["instance_ip"] = state["vm_ip"]
            ELSE /\ trace[1][2] = "again"
                 /\ state = InitialBag

\* an address on the second line, before another one
C12_Witness ==
    /\ phase = "poll"
    /\ mock.output = <<"w", "\n", "1", ".", "1", ".", "1", ".", "1", "\n">> \o StrAddr
    /\ trace = <<<<"stepWaitForVM", ActionContinue>>>>
    /\ state["vm_ip"] = <<"1", ".", "1", ".", "1", ".", "1">>

\* C12, a rejection: an address among other text
C12_WitnessEmbedded ==
    /\ phase = "poll"
    /\ mock.output = <<"s", "o", "m", "e", " ", "t", "e", "x", "t", " ", "1", ".", "2", ".", "3", ".", "4", " ", "m", "o", "r", "e">>
    /\ trace = <<<<"stepWaitForVM", "again">>>>
    /\ ~GetOk(state, "vm_ip")

----------------------------------------------------------------------------
(* One step run on its own against a mock backend that accepts or refuses  *)
(* the operation, under the local-command and under the remote-API         *)
(* transport                                                               *)

\* what the backend does with an operation: it carries it out, it refuses
\* it, or it cannot be reached
BackendResults == {"refused", "ok", "unreachable"}

Operations == {"start", "stop", "snapshot", "delete", "create", "publish"}

\* whether the command that carries the operation exits with an error.  The
\* VM manager's binary exits with an error when the operation fails.  curl
\* is run without --fail: it exits with an error only when it gets no
\* answer, and with success on an answer that reports a refusal.
CommandFails(cfg, res) == IF cfg.UseAPI THEN res = "unreachable" ELSE res # "ok"

\* the bag a step finds: the push step reads image_name
BagFor(op) ==
    IF op = "publish"
    THEN Put(InitialBag, "image_name", StrImg \o Colon \o StrLatest)
    ELSE InitialBag

\* the step of an operation run under a Config against the mock
StepUnder(v, cfg, m) ==
    LET in == [dirErr |-> m.dirErr, err |-> CommandFails(cfg, m.res)]
        bag == BagFor(m.op)
    IN  CASE m.op = "create" -> stepCreateVM_Run(v, bag, << >>, 0, cfg, in)
          [] m.op = "start" -> stepStartVM_Run(v, bag, << >>, 0, cfg, in)
          [] m.op = "stop" -> stepStopVM_Run(v, bag, << >>, 0, cfg, in)
          [] m.op = "snapshot" -> stepCreateImage_Run(v, bag, << >>, 0, cfg, in)
          [] m.op = "delete" -> stepCleanupVM_Run(v, bag, << >>, 0, cfg, in)
          [] m.op = "publish" ->
                stepPushImage_Run(v, bag, << >>, 0, cfg, "tok", in.dirErr,
                                  [pipeErr |-> FALSE, startErr |-> FALSE,
                                   exitErr |-> in.err, lines |-> << >>, drained |-> 0])

StepName(op) ==
    CASE op = "create" -> "stepCreateVM"
      [] op = "start" -> "stepStartVM"
      [] op = "stop" -> "stepStopVM"
      [] op = "snapshot" -> "stepCreateImage"
      [] op = "delete" -> "stepCleanupVM"
      [] op = "publish" -> "stepPushImage"

\* both steps files, every transport, publishing on
TransportBuilds ==
    {<<v, MkConfig(t[1], t[2], ImgUbuntu, TRUE, StrGhcr, StrOrg, FALSE)>> :
        v \in {"plugin", "root"}, t \in Transports}

InitTransport ==
    /\ \E b \in TransportBuilds : variant = b[1] /\ config = b[2]
    /\ githubToken = "tok"
    /\ slowPolls = FALSE
    /\ mock \in [op : Operations, res : BackendResults, dirErr : DirErrs(variant, config)]
    /\ state = BagFor(mock.op)
    /\ calls = << >>
    /\ envReads = 0
    /\ trace = << >>
    /\ stepIdx = 1
    /\ phase = "operation"
    /\ ctxDone = FALSE
    /\ ticksElapsed = 0
    /\ tickPending = FALSE
    /\ timeoutFired = FALSE
    /\ polls = 0
    /\ result = NoResult

InvokeOperation ==
    /\ phase = "operation"
    /\ trace = << >>
    /\ LET out == StepUnder(variant, config, mock)
       IN  /\ state' = out.state
           /\ calls' = out.calls
           /\ envReads' = out.envReads
           /\ trace' = Append(trace, <<StepName(mock.op), out.action>>)
    /\ UNCHANGED <<env, stepIdx, phase, ctxDone, waitVars, result>>

NextTransport == InvokeOperation

SpecTransport == InitTransport /\ [][NextTransport]_vars

\* the same Config with the other transport
OtherTransport(cfg) == [cfg EXCEPT !.UseAPI = ~cfg.UseAPI]

\* C13: for the same result of the backend, a step returns the same action
\* and leaves the same bag under the local-command and under the
\* remote-API transport.
C13_TransportIndependent ==
    (phase = "operation" /\ trace # << >>) =>
        LET other == StepUnder(variant, OtherTransport(config), mock)
        IN  /\ trace[1][2] = other.action
            /\ state = other.state

\* C14: one transport mode is active for a whole build: under use_api every
\* backend call is a curl request and the VM manager's binary is never
\* spawned, and without use_api no curl request is issued.
C14_OneTransportMode ==
    \A i \in 1..Len(calls) : (calls[i].bin = "curl") <=> config.UseAPI

----------------------------------------------------------------------------
(* Two builds of the same Config run at once against one backend.  In this *)
(* specification state, stepIdx are pairs, one entry per build; calls is   *)
(* the backend's log of the calls of both builds; mock.clock is the host's *)
(* clock in whole seconds, as time.Now().Unix() reads it.                  *)

MaxClock == 2

ConcurrentBuilds == {1, 2}

\* the bag Builder.Run sets up when the clock reads ts
BuilderRun_State(cfg, ts) ==
    [k \in {"config", "ui", "vm_name", "hook"} |->
        IF k = "vm_name"
        THEN StrPacker \o Dash \o cfg.VMName \o Dash \o FormatInt(ts)
        ELSE <<k>>]

InitConcurrent ==
    /\ \E b \in TransportBuilds : variant = b[1] /\ config = b[2]
    /\ githubToken = "tok"
    /\ slowPolls = FALSE
    /\ mock = [clock |-> 1]
    /\ state = [b \in ConcurrentBuilds |-> << >>]
    /\ calls = << >>
    /\ envReads = 0
    /\ trace = << >>
    /\ stepIdx = [b \in ConcurrentBuilds |-> 0]
    /\ phase = "concurrent"
    /\ ctxDone = FALSE
    /\ ticksElapsed = 0
    /\ tickPending = FALSE
    /\ timeoutFired = FALSE
    /\ polls = 0
    /\ result = NoResult

\* a second passes on the host
ClockSecond ==
    /\ phase = "concurrent"
    /\ mock.clock < MaxClock
    /\ mock' = [mock EXCEPT !.clock = @ + 1]
    /\ UNCHANGED <<variant, config, githubToken, slowPolls, state, calls, envReads,
                   trace, stepIdx, phase, ctxDone, waitVars, result>>

\* Builder.Run of build b reads the clock and names its VM
ConcurrentStart(b) ==
    /\ phase = "concurrent"
    /\ stepIdx[b] = 0
    /\ state' = [state EXCEPT ![b] = BuilderRun_State(config, mock.clock)]
    /\ stepIdx' = [stepIdx EXCEPT ![b] = 1]
    /\ UNCHANGED <<env, calls, envReads, trace, phase, ctxDone, waitVars, result>>

\* the next of the create, stop and delete steps of build b; the commands
\* succeed
ConcurrentStep(b) ==
    /\ phase = "concurrent"
    /\ stepIdx[b] \in 1..3
    /\ LET in == [dirErr |-> FALSE, err |-> FALSE]
           op == <<"create", "stop", "delete">>[stepIdx[b]]
           out == CASE op = "create" ->
                         stepCreateVM_Run(variant, state[b], calls, envReads, config, in)
                     [] op = "stop" ->
                         stepStopVM_Run(variant, state[b], calls, envReads, config, in)
                     [] op = "delete" ->
                         stepCleanupVM_Run(variant, state[b], calls, envReads, config, in)
       IN  /\ state' = [state EXCEPT ![b] = out.state]
           /\ calls' = out.calls
           /\ envReads' = out.envReads
           /\ trace' = Append(trace, <<StepName(op), out.action, b>>)
    /\ stepIdx' = [stepIdx EXCEPT ![b] = @ + 1]
    /\ UNCHANGED <<env, phase, ctxDone, waitVars, result>>

NextConcurrent ==
    \/ ClockSecond
    \/ \E b \in ConcurrentBuilds : ConcurrentStart(b)
    \/ \E b \in ConcurrentBuilds : ConcurrentStep(b)

SpecConcurrent == InitConcurrent /\ [][NextConcurrent]_vars

\* the VM a call names: the create call carries it second, the others first
CallTarget(c) == IF c.op = "run" THEN c.b ELSE c.a

\* C15: two builds running at once against the same backend never use the
\* same VM identifier, so that no create, stop or delete call of one build
\* names the VM of the other.
C15_DistinctVMNames ==
    phase = "concurrent" =>
        /\ (stepIdx[1] > 0 /\ stepIdx[2] > 0) =>
               state[1]["vm_name"] # state[2]["vm_name"]
        /\ \A i \in 1..Len(calls) :
               LET other == 3 - trace[i][3]
               IN  stepIdx[other] > 0 => CallTarget(calls[i]) # state[other]["vm_name"]

----------------------------------------------------------------------------
(* A step that pipes its subprocess, run on its own while the stderr       *)
(* reader goroutine appends to the buffer.  mock holds what the subprocess *)
(* did (its exit status and the lines it wrote to standard error) and      *)
(* mock.drained, the number of lines the reader has appended so far.       *)

PipedOperations == {"publish", "materialize"}

\* the step that carries a piped operation in each steps file
PipedStepName(v, op) ==
    IF op = "publish" THEN "stepPushImage"
    ELSE IF v = "plugin" THEN "stepPullImage" ELSE "stepCreateBaseImage"

InitPiped ==
    /\ \E b \in TransportBuilds : variant = b[1] /\ config = b[2]
    /\ githubToken = "tok"
    /\ slowPolls = FALSE
    /\ mock \in [op : PipedOperations, exitErr : BOOLEAN, lines : StderrLines, drained : {0}]
    /\ state = BagFor(mock.op)
    /\ calls = << >>
    /\ envReads = 0
    /\ trace = << >>
    /\ stepIdx = 1
    /\ phase = "piped"
    /\ ctxDone = FALSE
    /\ ticksElapsed = 0
    /\ tickPending = FALSE
    /\ timeoutFired = FALSE
    /\ polls = 0
    /\ result = NoResult

\* the stderr reader goroutine scans one more line and appends it to
\* stderrOutput; nothing orders it with the step's reading of the buffer
ReaderDrain ==
    /\ phase = "piped"
    /\ trace = << >>
    /\ mock.drained < Len(mock.lines)
    /\ mock' = [mock EXCEPT !.drained = @ + 1]
    /\ UNCHANGED <<variant, config, githubToken, slowPolls, state, calls, envReads,
                   trace, stepIdx, phase, ctxDone, waitVars, result>>

\* the step under a run of the subprocess of which the reader has appended
\* n lines; the image is not listed, the pipes and the start succeed
PipedStepUnder(v, cfg, m, n) ==
    LET run == [pipeErr |-> FALSE, startErr |-> FALSE, exitErr |-> m.exitErr,
                lines |-> m.lines, drained |-> n]
        bag == BagFor(m.op)
    IN  IF m.op = "publish"
        THEN stepPushImage_Run(v, bag, << >>, 0, cfg, "tok", FALSE, run)
        ELSE IF v = "plugin"
        THEN stepPullImage_Run(bag, << >>, 0, cfg, NoMock, run)
        ELSE stepCreateBaseImage_Run(bag, << >>, 0, cfg, FALSE, NoMock,
                                     [listErr |-> TRUE, listing |-> << >>, createErr |-> FALSE],
                                     run)

\* the command has exited and the step reads the buffer as the reader has
\* left it
InvokePiped ==
    /\ phase = "piped"
    /\ trace = << >>
    /\ LET out == PipedStepUnder(variant, config, mock, mock.drained)
       IN  /\ state' = out.state
           /\ calls' = out.calls
           /\ envReads' = out.envReads
           /\ trace' = Append(trace, <<PipedStepName(variant, mock.op), out.action>>)
    /\ UNCHANGED <<env, stepIdx, phase, ctxDone, waitVars, result>>

NextPiped ==
    \/ ReaderDrain
    \/ InvokePiped

SpecPiped == InitPiped /\ [][NextPiped]_vars

\* C16: the step evaluates the buffered standard-error text only after the
\* readers have drained: every line the subprocess wrote is in the buffer
\* when it is scanned, so the step's outcome is that of the whole text, and
\* no reader is still at work when the step returns.
C16_ReadersDrainedBeforeScan ==
    (phase = "piped" /\ trace # << >>) =>
        /\ mock.drained = Len(mock.lines)
        /\ trace[1][2] = PipedStepUnder(variant, config, mock, Len(mock.lines)).action

\* the text the step has captured when it scans
Captured == StderrContent(mock.lines, mock.drained)

\* C17: the push step is fatal whenever the push subprocess exits with a
\* failure or the captured standard-error text contains "unauthorized",
\* "denied" or "authentication required", whatever the exit status, and then
\* writes no pushed_image; pushed_image is written only when neither holds.
C17_PublishFatal ==
    (phase = "piped" /\ mock.op = "publish" /\ trace # << >>) =>
        LET refused == \/ mock.exitErr
                       \/ Contains(Captured, StrUnauthorized)
                       \/ Contains(Captured, StrDenied)
                       \/ Contains(Captured, StrAuthRequired)
        IN  /\ refused => /\ trace[1][2] = ActionHalt
                          /\ GetOk(state, "error")
                          /\ ~GetOk(state, "pushed_image")
            /\ ~refused => /\ trace[1][2] = ActionContinue
                           /\ GetOk(state, "pushed_image")
                           /\ state["pushed_image"] = Coordinate(config)
                           /\ ~GetOk(state, "error")

\* a push that exits with success and whose captured text asks for
\* authentication is fatal
C17_Witness ==
    /\ phase = "piped" /\ mock.op = "publish" /\ trace # << >>
    /\ ~mock.exitErr
    /\ Contains(Captured, StrAuthRequired)
    /\ trace[1][2] = ActionHalt
    /\ ~GetOk(state, "pushed_image")

\* a push with a harmless warning on standard error writes pushed_image
C17_WitnessPushed ==
    /\ phase = "piped" /\ mock.op = "publish" /\ trace # << >>
    /\ ~mock.exitErr
    /\ Captured = StrWarn \o StrNewline
    /\ GetOk(state, "pushed_image")

\* C18: base-image materialization does not trust the exit status alone:
\* when the pull or create subprocess exits with status 0 and its captured
\* standard-error text contains "unauthorized" or "denied", the step records
\* a fatal error and returns Halt.
C18_MaterializeScansStderr ==
    (/\ phase = "piped" /\ mock.op = "materialize" /\ trace # << >>
     /\ ~mock.exitErr
     /\ (Contains(Captured, StrUnauthorized) \/ Contains(Captured, StrDenied))) =>
        /\ trace[1][2] = ActionHalt
        /\ GetOk(state, "error")

----------------------------------------------------------------------------
(* Best-effort calls in the whole build *)

\* the stop command was run and failed: the step did not say it stopped
StopFailed == HasCall("stop") /\ ~Said(state, "stopped successfully")

\* C19: a failure of the stop call is not fatal: stepStopVM returns
\* Continue, no error entry is written to the bag, and stepCreateImage is
\* the step the runner runs next.
C19_StopFailureNonFatal ==
    StopFailed =>
        \E i \in 1..Len(trace) :
            /\ trace[i] = <<"stepStopVM", ActionContinue>>
            /\ Len(trace) = i =>
                  /\ ~GetOk(state, "error")
                  /\ ~GetOk(state, StateHalted)
                  /\ ~GetOk(state, StateCancelled) =>
                        phase = "run" /\ Steps[stepIdx] = "stepCreateImage"
            /\ Len(trace) > i => trace[i + 1][1] = "stepCreateImage"

\* the stop failed and the snapshot step has run
C19_Witness == StopFailed /\ Ran("stepCreateImage") /\ HasCall("snapshot")

\* the delete command was run and failed: the step did not say it cleaned up
DeleteFailed == HasCall("delete") /\ ~Said(state, "cleaned up successfully")

\* C20: a failure of the delete call never changes the terminal result of
\* the build: stepCleanupVM returns Continue and leaves the error entry as
\* it was, so a build whose forward steps all succeeded still returns its
\* Artifact, and a build that halted returns its fatal error.
C20_DeleteFailureKeepsResult ==
    /\ DeleteFailed =>
          /\ trace[Len(trace)] = <<"stepCleanupVM", ActionContinue>>
          /\ ForwardStepsContinued
          /\ ~GetOk(state, "error")
          /\ ~GetOk(state, StateHalted)
          /\ (Returned /\ ~GetOk(state, StateCancelled)) =>
                /\ result.hasArtifact
                /\ result.err = ""
                /\ result.ImageName = state["image_name"]
    /\ (Returned /\ GetOk(state, "error")) =>
          /\ ~result.hasArtifact
          /\ result.err = state["error"]

\* the delete failed and the build returned its Artifact
C20_Witness == DeleteFailed /\ Returned /\ result.hasArtifact

----------------------------------------------------------------------------
(* Error propagation and cancellation in the whole build *)

\* C21: the error Builder.Run returns is the fatal error recorded in the
\* bag, and it is returned only after the cleanup step has run and issued
\* the delete.
C21_ErrorReturnedAfterCleanup ==
    (Returned /\ GetOk(state, "error")) =>
        /\ result.err = state["error"]
        /\ ~result.hasArtifact
        /\ Ran("stepCleanupVM")
        /\ HasCall("delete")

\* C22: a cancellation raised from outside during the build is reported by
\* Builder.Run as the cancellation result, which is neither the error of a
\* step nor the halted result, and no Artifact is returned.
C22_CancellationReported ==
    (Returned /\ ctxDone) =>
        /\ result.err = "build was cancelled"
        /\ ~result.hasArtifact

----------------------------------------------------------------------------
(* What the provisioning collaborator is handed *)

\* the generated data commonsteps.StepProvision hands to the provisioners:
\* the "generated_data" entry of the bag when a step has put one, else
\* nothing of the builder's
ProvisionHookData(st) ==
    IF GetOk(st, "generated_data") THEN st["generated_data"] ELSE << >>

\* C23: when the provision step is invoked, the generated variables
\* MedaVMName and MedaVMIP are populated for it with the vm_name of the bag
\* and with the address the wait step recorded.
C23_GeneratedVarsPopulated ==
    Current("StepProvision") =>
        LET hookData == ProvisionHookData(state)
        IN  /\ "MedaVMName" \in DOMAIN hookData
            /\ "MedaVMIP" \in DOMAIN hookData
            /\ hookData["MedaVMName"] = state["vm_name"]
            /\ hookData["MedaVMIP"] = state["vm_ip"]

----------------------------------------------------------------------------
(* Config.Prepare run on what the user's template sets.  mock.raw is the   *)
(* Config as config.Decode leaves it (a field the template does not set at *)
(* its zero value), mock.binaryFound whether os.Stat or exec.LookPath find *)
(* the binary; config is the Config after Prepare and result.err its error *)

\* the zero value of every field: what config.Decode leaves in a field the
\* template does not set
ZeroConfig ==
    [MedaBinary |-> "", MedaHost |-> "", MedaPort |-> 0, UseAPI |-> FALSE,
     Memory |-> "", CPUs |-> 0, DiskSize |-> "", VMName |-> "", BaseImage |-> "",
     OutputImageName |-> "", OutputTag |-> "", Registry |-> "", CommType |-> "",
     SSHUsername |-> "", SSHPort |-> 0, SSHTimeout |-> 0, SSHPassword |-> "",
     SSHPrivateKeyFile |-> ""]

RawConfigs ==
    [MedaBinary : {"", "/opt/meda"}, MedaHost : {"", "10.0.0.9"}, MedaPort : {0, 8080},
     UseAPI : BOOLEAN, Memory : {"", "2G"}, CPUs : {0, 4}, DiskSize : {"", "20G"},
     VMName : {"", "vm"}, BaseImage : {"ubuntu:latest"}, OutputImageName : {"img"},
     OutputTag : {"", "v2"}, Registry : {"", "quay.io"},
     CommType : {""}, SSHUsername : {"", "root"}, SSHPort : {0, 2222},
     SSHTimeout : {0, 60}, SSHPassword : {""}, SSHPrivateKeyFile : {""}]

\* no default password: the field is left as the template has it
SSHPasswordDefault_None == ZeroConfig.SSHPassword

\* c.Comm.SSHPassword = "cirun" when the template sets none
SSHPasswordDefault == "cirun"

\* the fields Prepare gives a default, under their Go names
Config_Prepare(raw, binaryFound) ==
    LET Default(f, d) == IF raw[f] = ZeroConfig[f] THEN d ELSE raw[f]
        c == [MedaBinary |-> Default("MedaBinary", "meda"),
              MedaHost |-> Default("MedaHost", "127.0.0.1"),
              MedaPort |-> Default("MedaPort", 7777),
              UseAPI |-> raw.UseAPI,
              Memory |-> Default("Memory", "1G"),
              CPUs |-> Default("CPUs", 2),
              DiskSize |-> Default("DiskSize", "10G"),
              VMName |-> raw.VMName,
              BaseImage |-> raw.BaseImage,
              OutputImageName |-> raw.OutputImageName,
              OutputTag |-> Default("OutputTag", "latest"),
              Registry |-> Default("Registry", "ghcr.io"),
              CommType |-> Default("CommType", "ssh"),
              SSHPort |-> Default("SSHPort", 22),
              SSHUsername |-> Default("SSHUsername", "cirun"),
              SSHTimeout |-> Default("SSHTimeout", 5 * 60),
              SSHPassword |-> Default("SSHPassword", SSHPasswordDefault),
              SSHPrivateKeyFile |-> raw.SSHPrivateKeyFile]
        errs == (IF c.VMName = "" THEN <<"vm_name is required">> ELSE << >>)
                \o (IF c.BaseImage = "" THEN <<"base_image is required">> ELSE << >>)
                \o (IF c.OutputImageName = ""
                    THEN <<"output_image_name is required">> ELSE << >>)
                \o (IF ~c.UseAPI /\ ~binaryFound
                    THEN <<"meda binary not found">> ELSE << >>)
    IN  [config |-> c, err |-> IF Len(errs) > 0 THEN "validation errors" ELSE ""]

InitPrepare ==
    /\ variant \in {"plugin"}
    /\ mock \in [raw : RawConfigs, binaryFound : BOOLEAN]
    /\ config = mock.raw
    /\ githubToken = ""
    /\ slowPolls = FALSE
    /\ state = << >>
    /\ calls = << >>
    /\ envReads = 0
    /\ trace = << >>
    /\ stepIdx = 0
    /\ phase = "prepare"
    /\ ctxDone = FALSE
    /\ ticksElapsed = 0
    /\ tickPending = FALSE
    /\ timeoutFired = FALSE
    /\ polls = 0
    /\ result = NoResult

\* Builder.Prepare: b.config.Prepare(raws...)
BuilderPrepare ==
    /\ phase = "prepare"
    /\ LET out == Config_Prepare(mock.raw, mock.binaryFound)
       IN  /\ config' = out.config
           /\ result' = [NoResult EXCEPT !.err = out.err]
    /\ phase' = "prepared"
    /\ UNCHANGED <<variant, githubToken, slowPolls, mock, state, calls, envReads, trace,
                   stepIdx, ctxDone, waitVars>>

NextPrepare == BuilderPrepare

SpecPrepare == InitPrepare /\ [][NextPrepare]_vars

\* the defaults of the README's configuration reference
DocumentedDefaults ==
    [MedaBinary |-> "meda", MedaHost |-> "127.0.0.1", MedaPort |-> 7777,
     UseAPI |-> FALSE, Memory |-> "1G", CPUs |-> 2, DiskSize |-> "10G",
     OutputTag |-> "latest", Registry |-> "ghcr.io",
     SSHUsername |-> "ubuntu", SSHPort |-> 22, SSHTimeout |-> 5 * 60]

\* C24: Config.Prepare keeps every field the user set and gives every unset
\* field its documented default: meda_binary "meda", meda_host "127.0.0.1",
\* meda_port 7777, use_api false, memory "1G", cpus 2, disk_size "10G",
\* output_tag "latest", registry "ghcr.io", ssh_username "ubuntu", ssh_port
\* 22, ssh_timeout 5m.
C24_DocumentedDefaults ==
    phase = "prepared" =>
        \A f \in DOMAIN DocumentedDefaults :
            config[f] = IF mock.raw[f] = ZeroConfig[f]
                        THEN DocumentedDefaults[f] ELSE mock.raw[f]

----------------------------------------------------------------------------
(* Order of the steps *)

\* the fixed order: the steps that may stand at each position
FixedOrder ==
    <<{"stepPullImage", "stepCreateBaseImage"}, {"stepCreateVM"}, {"stepStartVM"},
      {"stepWaitForVM"}, {"StepSSHKeyGen", "nullStep"}, {"StepConnect"},
      {"StepProvision"}, {"stepStopVM"}, {"stepCreateImage"}, {"stepPushImage"},
      {"stepCleanupVM"}>>

\* the number of steps that have returned, and one more while the wait step
\* is in its loop
StepsEntered == Len(trace) + (IF phase = "wait" THEN 1 ELSE 0)

\* C25: the steps run strictly in the fixed order, one at a time: the k-th
\* step to return is the k-th of the order, every step before the last one
\* returned Continue, the backend calls are issued in the order of their
\* steps, each by a step all of whose predecessors returned Continue, and
\* while the wait step is in its loop no other step has been entered.
C25_FixedOrder ==
    /\ Len(trace) <= Len(FixedOrder)
    /\ \A k \in 1..Len(trace) : trace[k][1] \in FixedOrder[k]
    /\ \A k \in 1..(Len(trace) - 1) : trace[k][2] = ActionContinue
    /\ \A i \in 1..Len(calls) :
          /\ OpStep(calls[i].op) <= StepsEntered
          /\ \A k \in 1..(OpStep(calls[i].op) - 1) : trace[k][2] = ActionContinue
          /\ \A j \in 1..i : OpStep(calls[j].op) <= OpStep(calls[i].op)
    /\ phase = "wait" => (Len(trace) = 3 /\ stepIdx = 4)
    /\ phase = "run" => stepIdx = Len(trace) + 1

\* a build that ran all its steps, down to the delete
C25_Witness ==
    /\ Len(trace) = Len(FixedOrder)
    /\ HasCall("push")
    /\ calls[Len(calls)].op = "delete"

----------------------------------------------------------------------------
(* The VM between create and start *)

\* the options with which a create request asks for a VM that is not started
NoStartOptions == {"--no-start", "start=false"}

\* C26: under both transports the create request of stepCreateVM asks the
\* backend explicitly to leave the new VM not running.
C26_CreateAsksNoStart ==
    \A i \in 1..Len(calls) :
        calls[i].op = "run" => calls[i].flags \cap NoStartOptions # {}

\* C27: the snapshot call is issued only when the VM has been stopped
\* successfully, never while it may still be running.
C27_SnapshotOfStoppedVM ==
    HasCall("snapshot") => (HasCall("stop") /\ Said(state, "stopped successfully"))

----------------------------------------------------------------------------
(* The existence check of the base-image step *)

\* the backend holds the configured base image: one of the images of the
\* mock's listing, one per line, is the image the step looks for
BackendHolds ==
    \E l \in 1..Len(Split(mock.listing, "\n")) :
        LET line == Split(mock.listing, "\n")[l]
        IN  IF variant = "plugin" THEN line = CheckedName
            ELSE line # << >> /\ BeforeColon(line) = CheckedName

\* the pull or create calls issued for the configured base image
MaterializeCalls ==
    {i \in 1..Len(calls) : calls[i].op \in {"pull", "create-image"}
                              /\ calls[i].a \in {CheckedName, config.BaseImage}}

\* C28: the base-image step skips the pull or create only when the backend
\* holds the configured image: when the image is absent, every invocation
\* that returns Continue has issued a pull or create for it; an image whose
\* name merely contains the configured name does not count, and neither
\* does a listing call that failed.
C28_SkipOnlyWhenHeld ==
    (phase = "harness" /\ (mock.listErr \/ ~BackendHolds)) =>
        Cardinality({k \in 1..Len(trace) : trace[k][2] = ActionContinue})
            <= Cardinality(MaterializeCalls)

----------------------------------------------------------------------------
(* The root-level base-image step run on its own for the dependent image   *)
(* ubuntu-base against a backend that holds the images mock.held           *)

StrUbuntuMinimal == StrUbuntu \o <<"-", "m", "i", "n", "i", "m", "a", "l">>

ImageNames == <<StrUbuntu, StrUbuntuBase, StrUbuntuMinimal>>

\* what the images command prints for a backend holding held: a line
\* name:latest for each image
RECURSIVE ListingFrom(_, _)
ListingFrom(held, k) ==
    IF k > Len(ImageNames) THEN << >>
    ELSE (IF ImageNames[k] \in held
          THEN ImageNames[k] \o Colon \o StrLatest \o StrNewline ELSE << >>)
         \o ListingFrom(held, k + 1)

ListingOf(held) == ListingFrom(held, 1)

\* the root-level steps file, every transport, the dependent base image
PrerequisiteBuilds ==
    {<<"root", MkConfig(t[1], t[2], ImgUbuntuBase, FALSE, StrGhcr, << >>, FALSE)>> :
        t \in Transports}

InitPrerequisite ==
    /\ \E b \in PrerequisiteBuilds : variant = b[1] /\ config = b[2]
    /\ githubToken = ""
    /\ slowPolls = FALSE
    /\ mock \in [held : SUBSET {ImageNames[k] : k \in 1..Len(ImageNames)},
                  createErr : BOOLEAN, exitErr : BOOLEAN,
                  dirErr : DirErrs(variant, config)]
    /\ state = InitialBag
    /\ calls = << >>
    /\ envReads = 0
    /\ trace = << >>
    /\ stepIdx = 1
    /\ phase = "prerequisite"
    /\ ctxDone = FALSE
    /\ ticksElapsed = 0
    /\ tickPending = FALSE
    /\ timeoutFired = FALSE
    /\ polls = 0
    /\ result = NoResult

\* stepCreateBaseImage.Run: both listings show what the backend holds, the
\* prerequisite's create fails as mock.createErr says and the dependent
\* image's as mock.exitErr says
InvokePrerequisite ==
    /\ phase = "prerequisite"
    /\ trace = << >>
    /\ LET listing == ListingOf(mock.held)
           out == stepCreateBaseImage_Run(
                      state, calls, envReads, config, mock.dirErr,
                      [listErr |-> FALSE, listing |-> listing],
                      [listErr |-> FALSE, listing |-> listing, createErr |-> mock.createErr],
                      [pipeErr |-> FALSE, startErr |-> FALSE, exitErr |-> mock.exitErr,
                       lines |-> << >>, drained |-> 0])
       IN  /\ state' = out.state
           /\ calls' = out.calls
           /\ envReads' = out.envReads
           /\ trace' = Append(trace, <<"stepCreateBaseImage", out.action>>)
    /\ UNCHANGED <<env, stepIdx, phase, ctxDone, waitVars, result>>

NextPrerequisite == InvokePrerequisite

SpecPrerequisite == InitPrerequisite /\ [][NextPrerequisite]_vars

\* the positions in calls of the create calls for an image
CreateCalls(name) == {i \in 1..Len(calls) : calls[i].op = "create-image" /\ calls[i].a = name}

\* C29: when the dependent image ubuntu-base is absent, the prerequisite
\* ubuntu is checked and, if it is absent, created before the create call for
\* ubuntu-base; if the prerequisite's create fails the step records the error
\* and halts without the dependent create; nothing below the prerequisite is
\* checked or created.
C29_PrerequisiteFirst ==
    (/\ phase = "prerequisite" /\ trace # << >>
     /\ StrUbuntuBase \notin mock.held
     /\ ~ErrorIs("failed to get meda directory")) =>
        /\ Cardinality(CreateCalls(StrUbuntu)) = (IF StrUbuntu \in mock.held THEN 0 ELSE 1)
        /\ Cardinality(CreateCalls(StrUbuntuBase)) <= 1
        /\ \A i \in CreateCalls(StrUbuntu), j \in CreateCalls(StrUbuntuBase) : i < j
        /\ \A i \in 1..Len(calls) :
              calls[i].op = "images"
                  \/ i \in CreateCalls(StrUbuntu) \cup CreateCalls(StrUbuntuBase)
        /\ Cardinality({i \in 1..Len(calls) : calls[i].op = "images"}) = 2
        /\ (StrUbuntu \notin mock.held /\ mock.createErr) =>
              /\ trace[1][2] = ActionHalt
              /\ ErrorIs("failed to create ubuntu base image")
              /\ CreateCalls(StrUbuntuBase) = {}

----------------------------------------------------------------------------
(* The address the wait step hands on *)

\* the wait step returned Continue
WaitSucceeded == Len(trace) >= 4 /\ trace[4] = <<"stepWaitForVM", ActionContinue>>

\* C30: on success the wait step writes one validated address to vm_ip and
\* instance_ip of the bag and to the communicator's SSH host; on timeout, as
\* on any other end, it writes none of them: the three are all unset or all
\* equal to one validated address.
C30_AddressAllOrNothing ==
    IF WaitSucceeded
    THEN /\ GetOk(state, "vm_ip") /\ GetOk(state, "instance_ip")
         /\ state["instance_ip"] = state["vm_ip"]
         /\ config.Comm.SSHHost = state["vm_ip"]
         /\ LooksLikeIP(state["vm_ip"])
    ELSE /\ ~GetOk(state, "vm_ip") /\ ~GetOk(state, "instance_ip")
         /\ config.Comm.SSHHost = << >>

\* the connect step is about to use the address the wait step wrote
C30_Witness ==
    /\ WaitSucceeded
    /\ Current("StepConnect")
    /\ config.Comm.SSHHost = StrAddr

\* the wait step timed out and wrote no address
C30_WitnessTimeout ==
    /\ TimedOut
    /\ phase = "ran"
    /\ ~GetOk(state, "vm_ip")
    /\ config.Comm.SSHHost = << >>

----------------------------------------------------------------------------
(* Frame conditions of the build *)

\* C31: the Config is immutable after validation: no step of Builder.Run
\* changes any of its fields.
C31_ConfigImmutable == [][config' = config]_vars

\* C32: the bag only grows during a build: a key that has been written is
\* present in every later state, no step removes an entry.
C32_BagOnlyGrows == [][DOMAIN state \subseteq DOMAIN state']_vars

\* a build that returned with every key written by the steps in its bag
C32_Witness ==
    /\ Returned
    /\ {"config", "ui", "vm_name", "image_name", "pushed_image", "vm_ip", "instance_ip"}
           \subseteq DOMAIN state

\* a build that returned with the error entry beside the earlier ones
C32_WitnessError ==
    /\ Returned
    /\ {"config", "ui", "error", "vm_name", "image_name", "vm_ip", "instance_ip"}
           \subseteq DOMAIN state

----------------------------------------------------------------------------
(* The step list Builder.Run builds from a Config that Config.Prepare has  *)
(* accepted, for every way the template may set up the communicator.  In   *)
(* this specification trace holds the list, each step not yet run.         *)

\* templates that differ in the communicator and in what Prepare validates
CommRawConfigs ==
    [MedaBinary : {""}, MedaHost : {""}, MedaPort : {0},
     UseAPI : BOOLEAN, Memory : {""}, CPUs : {0}, DiskSize : {""},
     VMName : {"", "vm"}, BaseImage : {"ubuntu:latest"}, OutputImageName : {"img"},
     OutputTag : {""}, Registry : {""},
     CommType : {"", "ssh", "winrm"}, SSHUsername : {""}, SSHPort : {0},
     SSHTimeout : {0}, SSHPassword : {"", "pw"}, SSHPrivateKeyFile : {"", "key.pem"}]

\* the communicator part of a prepared Config, as the step list reads it
CommOf(c) ==
    [Type |-> c.CommType, SSHPrivateKeyFile |-> c.SSHPrivateKeyFile,
     SSHPassword |-> c.SSHPassword, SSHHost |-> << >>]

InitSequence ==
    /\ variant \in {"plugin", "root"}
    /\ mock \in [raw : CommRawConfigs, binaryFound : BOOLEAN]
    /\ config = mock.raw
    /\ githubToken = ""
    /\ slowPolls = FALSE
    /\ state = << >>
    /\ calls = << >>
    /\ envReads = 0
    /\ trace = << >>
    /\ stepIdx = 0
    /\ phase = "prepare"
    /\ ctxDone = FALSE
    /\ ticksElapsed = 0
    /\ tickPending = FALSE
    /\ timeoutFired = FALSE
    /\ polls = 0
    /\ result = NoResult

\* Builder.Run up to the runner: the step list of an accepted Config
BuilderRunSteps ==
    /\ phase = "prepared"
    /\ result.err = ""
    /\ LET steps == BuildSteps(variant, [Comm |-> CommOf(config)])
       IN  trace' = [k \in 1..Len(steps) |-> <<steps[k], "listed">>]
    /\ phase' = "listed"
    /\ UNCHANGED <<env, state, calls, envReads, stepIdx, ctxDone, waitVars, result>>

SpecSequence == InitSequence /\ [][BuilderPrepare \/ BuilderRunSteps]_vars

\* the key-generation step is in the list
KeyGenListed == \E k \in 1..Len(trace) : trace[k][1] = "StepSSHKeyGen"

\* C33: the key-generation step is part of the step list only when the
\* communicator is ssh and the Config has neither a private key file nor a
\* password; otherwise its place is taken by a step that does nothing, and
\* the rest of the list is the same in both cases.
C33_KeyGenOnlyWhenNeeded ==
    phase = "listed" =>
        /\ KeyGenListed =>
              /\ config.CommType = "ssh"
              /\ config.SSHPrivateKeyFile = ""
              /\ config.SSHPassword = ""
        /\ Len(trace) = Len(FixedOrder)
        /\ \A k \in 1..Len(trace) : trace[k][1] \in FixedOrder[k]
        /\ ~KeyGenListed => trace[5][1] = "nullStep"
        /\ \A c \in CommRawConfigs :
              LET steps == BuildSteps(variant, [Comm |-> CommOf(c)])
                  needed == c.CommType = "ssh" /\ c.SSHPrivateKeyFile = "" /\ c.SSHPassword = ""
                  others == BuildSteps(variant, [Comm |-> CommOf(config)])
              IN  /\ steps[5] = IF needed THEN "StepSSHKeyGen" ELSE "nullStep"
                  /\ \A k \in 1..Len(steps) : k # 5 => steps[k] = others[k]

\* a Config with a key file: the key generation is skipped
C33_Witness ==
    /\ phase = "listed"
    /\ config.CommType = "ssh"
    /\ config.SSHPrivateKeyFile = "key.pem"
    /\ ~KeyGenListed
    /\ trace[6][1] = "StepConnect"

\* C38: in every Config that Config.Prepare accepted the SSH password is not
\* empty (it is "cirun" when the template gives none), so the condition of
\* the key-generation step is false and the step is in no build's step list.
C38_KeyGenNeverListed ==
    /\ (phase \in {"prepared", "listed"} /\ result.err = "") =>
          /\ config.SSHPassword # ""
          /\ mock.raw.SSHPassword = "" => config.SSHPassword = "cirun"
    /\ phase = "listed" => ~KeyGenListed

\* a template with ssh, no key file and no password: no key generation
C38_Witness ==
    /\ phase = "listed"
    /\ mock.raw.CommType \in {"", "ssh"}
    /\ mock.raw.SSHPrivateKeyFile = ""
    /\ mock.raw.SSHPassword = ""
    /\ config.SSHPassword = "cirun"
    /\ trace[5][1] = "nullStep"

----------------------------------------------------------------------------
\* the publish calls issued so far
PushCalls == {i \in 1..Len(calls) : calls[i].op = "push"}

\* C34: Config's dry-run flag reaches the publish call unchanged under both
\* transports: the push command line of the CLI has --dry-run exactly when
\* dry_run is true, and the dry_run field of the API's push request equals
\* Config's dry_run.
C34_DryRunPropagated ==
    \A i \in PushCalls :
        IF config.UseAPI
        THEN /\ calls[i].bin = "curl"
             /\ ("dry_run=true" \in calls[i].flags) = config.DryRun
             /\ ("dry_run=false" \in calls[i].flags) = ~config.DryRun
        ELSE /\ calls[i].bin # "curl"
             /\ ("--dry-run" \in calls[i].flags) = config.DryRun

\* a dry run published through the CLI
C34_Witness ==
    /\ Returned
    /\ config.DryRun /\ ~config.UseAPI
    /\ \E i \in PushCalls : "--dry-run" \in calls[i].flags

\* a dry run published through the API
C34_WitnessAPI ==
    /\ Returned
    /\ config.DryRun /\ config.UseAPI
    /\ \E i \in PushCalls : "dry_run=true" \in calls[i].flags

----------------------------------------------------------------------------
(* Artifact.String *)

StrMedaImage == <<"M", "e", "d", "a", " ", "i", "m", "a", "g", "e", ":", " ">>

StrPushedTo == <<" ", "(", "p", "u", "s", "h", "e", "d", " ", "t", "o", " ">>

\* the summary line of an Artifact
Artifact_String(a) ==
    IF a.PushedImage # << >>
    THEN StrMedaImage \o a.ImageName \o StrPushedTo \o a.PushedImage \o <<")">>
    ELSE StrMedaImage \o a.ImageName

\* C39: a publish that succeeds records pushed_image in the bag with
\* dry_run=true just as with dry_run=false, so the Artifact Builder.Run
\* returns has the target coordinate as PushedImage and its summary says
\* "pushed to" that coordinate, although a dry run published nothing.
C39_DryRunReportedPushed ==
    (Returned /\ result.hasArtifact /\ HasCall("push")) =>
        /\ GetOk(state, "pushed_image")
        /\ state["pushed_image"] = TargetImage(config)
        /\ result.PushedImage = TargetImage(config)
        /\ Artifact_String(result) =
              StrMedaImage \o state["image_name"] \o StrPushedTo
                  \o TargetImage(config) \o <<")">>

\* the Artifact of a build whose publish was a dry run
C39_Witness ==
    /\ Returned /\ result.hasArtifact
    /\ config.DryRun
    /\ \E i \in PushCalls : calls[i].flags \cap {"dry_run=true", "--dry-run"} # {}
    /\ Contains(Artifact_String(result), StrPushedTo \o TargetImage(config))

----------------------------------------------------------------------------
\* the steps of the plugin itself, as opposed to the collaborator's
CoreSteps ==
    {"stepPullImage", "stepCreateBaseImage", "stepCreateVM", "stepStartVM",
     "stepWaitForVM", "stepStopVM", "stepCreateImage", "stepPushImage",
     "stepCleanupVM"}

\* a core step has returned Halt
CoreStepHalted ==
    \E k \in 1..Len(trace) : trace[k][1] \in CoreSteps /\ trace[k][2] = ActionHalt

\* C36: whenever a core step has returned Halt the bag has an error entry,
\* and Builder.Run does not return "build was halted" for such a halt.
C36_HaltRecordsError ==
    CoreStepHalted =>
        /\ GetOk(state, "error")
        /\ Returned => result.err # "build was halted"

----------------------------------------------------------------------------
\* the bag keys a step takes with state.Get and an unchecked type assertion
KeysRead(name) ==
    CASE name \in {"stepCreateVM", "stepStartVM", "stepWaitForVM", "stepStopVM",
                   "stepCreateImage", "stepCleanupVM"} -> {"config", "ui", "vm_name"}
      [] name \in {"stepPullImage", "stepCreateBaseImage"} -> {"config", "ui"}
      [] name = "StepConnect" -> {"vm_ip"}
      [] name = "stepPushImage" -> {"config", "ui", "image_name"}
      [] OTHER -> {}

\* C37: no step reads a bag key that was not written earlier in the build:
\* vm_name is present when the create, start, wait, stop, snapshot and
\* cleanup steps run (and at every poll of the wait step), vm_ip when the
\* connect step resolves its host, image_name when the push step runs.
C37_KeysWrittenBeforeRead ==
    /\ phase = "run" /\ ~ctxDone => KeysRead(Steps[stepIdx]) \subseteq DOMAIN state
    /\ phase = "wait" => KeysRead("stepWaitForVM") \subseteq DOMAIN state

\* a build in which every one of these steps has run
C37_Witness ==
    /\ Returned /\ result.hasArtifact
    /\ \A name \in {"StepConnect", "stepCreateVM", "stepStartVM", "stepWaitForVM",
                     "stepStopVM", "stepCreateImage", "stepPushImage", "stepCleanupVM"} :
           Ran(name)
    /\ HasCall("push")

----------------------------------------------------------------------------
(* Artifact.Destroy, called on the Artifact of a finished build against a  *)
(* backend that carries the delete out, refuses it, or cannot be reached.  *)
(* In this specification result holds the Artifact, mock the Artifact as   *)
(* Builder.Run returned it, and trace the calls of Destroy, each with the  *)
(* backend's answer and the error returned.                                *)

MaxDestroys == 2

StrDestroyFailed == <<"f", "a", "i", "l", "e", "d", " ", "t", "o", " ", "d", "e", "s", "t", "r", "o", "y", " ", "i", "m", "a", "g", "e", " ">>

\* whether process.Run() returns an error.  curl is run without --fail: it
\* exits with an error only when it gets no answer.  The local form runs
\* cmd[0] = MedaBinary with "images rm": under "cargo" that is cargo itself,
\* without "run --", which has no such subcommand and never asks the backend.
DestroyFails(cfg, res) ==
    IF cfg.UseAPI THEN res = "unreachable"
    ELSE IF cfg.MedaBinary = "cargo" THEN TRUE
    ELSE res # "ok"

\* Artifact.Destroy: the command issued and the error returned
Artifact_Destroy(a, cfg, cs, res) ==
    LET cmd == IF cfg.UseAPI
               THEN Call("curl", "images rm", a.ImageName, << >>, {"-X DELETE"})
               ELSE Call(cfg.MedaBinary, "images rm", a.ImageName, << >>, {})
    IN  [calls |-> Append(cs, cmd),
         err |-> IF DestroyFails(cfg, res)
                 THEN StrDestroyFailed \o a.ImageName \o Colon \o <<" ", "e", "r", "r">>
                 ELSE << >>]

\* the Artifact Builder.Run returns for a Config
ArtifactOf(cfg) ==
    BuilderRunResult(
        [k \in {"image_name"} \cup (IF cfg.PushToRegistry THEN {"pushed_image"} ELSE {}) |->
            IF k = "image_name" THEN cfg.OutputImageName \o Colon \o cfg.OutputTag
            ELSE TargetImage(cfg)])

\* the bag of the build, as it is left or already gone
DestroyBags == {<< >>, Put(InitialBag, "image_name", StrImg \o Colon \o StrLatest)}

InitDestroy ==
    /\ variant = "plugin"
    /\ \E t \in Transports, p \in BOOLEAN :
          config = MkConfig(t[1], t[2], ImgUbuntu, p, StrGhcr, StrOrg, FALSE)
    /\ githubToken = ""
    /\ slowPolls = FALSE
    /\ mock = [artifact |-> ArtifactOf(config)]
    /\ state \in DestroyBags
    /\ calls = << >>
    /\ envReads = 0
    /\ trace = << >>
    /\ stepIdx = 0
    /\ phase = "artifact"
    /\ ctxDone = FALSE
    /\ ticksElapsed = 0
    /\ tickPending = FALSE
    /\ timeoutFired = FALSE
    /\ polls = 0
    /\ result = ArtifactOf(config)

ArtifactDestroy ==
    /\ phase = "artifact"
    /\ Len(trace) < MaxDestroys
    /\ \E res \in BackendResults :
         LET out == Artifact_Destroy(result, config, calls, res)
         IN  /\ calls' = out.calls
             /\ trace' = Append(trace, <<"Artifact.Destroy", res, out.err>>)
    /\ UNCHANGED <<env, state, envReads, stepIdx, phase, ctxDone, waitVars, result>>

SpecDestroy == InitDestroy /\ [][ArtifactDestroy]_vars

\* C35: Artifact.Destroy does not touch the bag; each call issues exactly
\* one delete-image request for the Artifact's ImageName through the
\* transport of Config, returns nil when the backend carried the delete out
\* and an error naming the image when it did not, and leaves the Artifact's
\* fields as they were.
C35_DestroyReportsOutcome ==
    phase = "artifact" =>
        /\ state \in DestroyBags
        /\ Len(calls) = Len(trace)
        /\ \A k \in 1..Len(calls) :
              /\ calls[k].op = "images rm"
              /\ calls[k].a = mock.artifact.ImageName
              /\ calls[k].bin = Bin(config)
        /\ \A k \in 1..Len(trace) :
              IF trace[k][2] = "ok"
              THEN trace[k][3] = << >>
              ELSE Contains(trace[k][3], StrDestroyFailed \o mock.artifact.ImageName)
        /\ result = mock.artifact

====
